---------------------------- MODULE Spec2Model ----------------------------
(***************************************************************************)
(* Multi-receiver ingestion and pacing core of the UberSDR CW Skimmer      *)
(* interface DLL (clients/CW_Skimmer/UberSDRIntf).                          *)
(*                                                                         *)
(* Threads of the program and how they appear here:                        *)
(*   host thread      StartRx / StopRx / SetRxFrequency (hostPc)           *)
(*   consumer thread  ConsumeRingBuffers (asmPc), the block assembler      *)
(*   socket threads   one per ix::WebSocket object (socks), delivering     *)
(*                    Open / Message / Close / Error to the callback       *)
(*                    installed by ConnectWebSocket                         *)
(*   clock            QueryPerformanceCounter (clock)                       *)
(*                                                                         *)
(* A step of the model is the code between two blocking points or lock     *)
(* boundaries of one thread.  Sample values are abstracted to the index    *)
(* of the sample in the decode order of its receiver (0 is the silent      *)
(* sample (0.0, 0.0)); the software frequency shift is the bypass          *)
(* (frequencyOffset = 0, phaseIncrement = 0.0), WAV recording is off       *)
(* (debugRec = false).                                                     *)
(*                                                                         *)
(* Host protocol: StartRx is called when no consumer thread of an earlier  *)
(* StartRx is alive (the host calls StopRx first and the consumer has      *)
(* observed gStopFlag).  The one second StopRx waits for the consumer      *)
(* thread elapses only while the consumer is inside the host's callback.   *)
(* SpecRestart alone lets StartRx run while an earlier consumer is alive.  *)
(***************************************************************************)
EXTENDS Integers, Sequences, FiniteSets, TLC

\* ------------------------------------------------------------------ bounds
\* number of receivers the host may request (MAX_RX_COUNT is 8 in the code)
MaxRx == 2
\* gBlockInSamples, samples per block (512/1024/2048 in the code)
BlockLen == 2
\* gSampleRate in samples per second
SampleRate == 2
\* QueryPerformanceFrequency, clock ticks per second
PerfFreq == 4
\* samples decoded from audio messages in a run
MaxSamples == 2
\* pacing ticks begun by consumer threads in a run
MaxTicks == 4
\* attempts one reconnection thread makes in a run of the retry loop
MaxAttempts == 8
\* largest capacity a ring is initialised with when it is exercised by itself
MaxCapacity == 3
\* overruns and underruns a ring counts when it is exercised by itself
MaxFaults == 2
\* largest clock reading
MaxClock == 9
\* WebSocket objects created in a run
MaxSocks == 2
\* UUIDs drawn (admission requests) in a run
MaxUuid == 2
\* reconnection threads created in a run
MaxThreads == 1

\* ------------------------------------------------------- program constants
\* HandleReconnection: retryDelay at the start and maxDelay, milliseconds
InitialDelay == 1000
MaxDelay == 60000
DefaultFreq == 14074000
OtherFreq == 7074000
RingMs == 2000
DefaultSampleRate == 192000

Rx == 0..(MaxRx - 1)
Zero == 0
NULL == 0
SockId == 1..MaxSocks
ThreadId == 1..(MaxThreads + 1)
Freqs == {DefaultFreq, OtherFreq}

VARIABLES
  \* UberSDRIntf.cpp globals
  gSetRecvCount, gStopFlag, gData1, gData2, gDataSamples,
  gRxMask, gRxFilled, gActiveReceivers, gInPtr, gOutPtr, gBucket,
  gDataCriticalSection, totalCallbacks,
  \* UberSDR object
  receivers, ringBuffer, activeReceivers, sampleRate,
  \* WebSocket objects, UUID source, decode counters
  socks, nextSock, nextUuid, samplesReceived,
  \* consumer thread (locals of ConsumeRingBuffers)
  consumerAlive, asmPc, receiverID, samplesProcessed, timingInitialized,
  startTime, targetTicks,
  \* host thread
  hostPc,
  \* clock
  clock,
  \* history (not program state)
  gDataTick, callbacksSinceT0, tickClock, prevTickClock,
  appended, completed, delivered, startReturn,
  \* reconnection threads (HandleReconnection), ticks begun by consumers
  reconn, nextThread, ticks,
  \* UUIDs the run may draw, UUIDs the server has admitted, callbacks past
  \* their staleness check, tune messages of the last SetFrequency call,
  \* generation each sample came by
  uuidLimit, threadLimit, admitted, inflight, tuneMsg, rxGen,
  \* the last call made on a ring by itself: result, value and expected FIFO
  lastOp,
  \* what the last call with a receiver id out of range returned and logged
  report

asmVars == <<gSetRecvCount, gStopFlag, gData1, gData2, gDataSamples,
             gRxMask, gRxFilled, gActiveReceivers, gInPtr, gOutPtr, gBucket,
             gDataCriticalSection, totalCallbacks>>
sdrVars == <<receivers, activeReceivers, sampleRate>>
sockVars == <<socks, nextSock, nextUuid>>
consVars == <<consumerAlive, asmPc, receiverID, samplesProcessed,
              timingInitialized, startTime, targetTicks>>
histVars == <<gDataTick, callbacksSinceT0, tickClock, prevTickClock,
              appended, completed, delivered>>
thrVars == <<reconn, nextThread, ticks>>
auxVars == <<uuidLimit, threadLimit, admitted, inflight, tuneMsg, rxGen, lastOp, report>>
vars == <<asmVars, sdrVars, ringBuffer, samplesReceived, sockVars, consVars,
          hostPc, clock, histVars, startReturn, thrVars, auxVars>>

\* ---------------------------------------------------------------- RingBuffer
Resize(buf, cap) ==
  [k \in 0..(cap - 1) |-> IF k \in DOMAIN buf THEN buf[k] ELSE Zero]

RingNew ==
  [buffer |-> <<>>, writePos |-> 0, readPos |-> 0, capacity |-> 0,
   underrunCount |-> 0, overrunCount |-> 0]

RingInit(rb, capacityInSamples) ==
  [buffer |-> Resize(rb.buffer, capacityInSamples),
   writePos |-> 0, readPos |-> 0, capacity |-> capacityInSamples,
   underrunCount |-> 0, overrunCount |-> 0]

available_nomod(rb) == rb.writePos - rb.readPos

\* (writePos - readPos + capacity) % capacity; both positions stay below
\* capacity, so the size_t sum is the exact one
available(rb) == (rb.writePos - rb.readPos + rb.capacity) % rb.capacity

space(rb) == rb.capacity - available(rb) - 1

RingWrite_overwrite(rb, s) ==
  IF space(rb) < 1
  THEN [rb |-> [rb EXCEPT !.buffer[rb.writePos] = s,
                          !.overrunCount = @ + 1], ok |-> FALSE]
  ELSE [rb |-> [rb EXCEPT !.buffer[rb.writePos] = s,
                          !.writePos = (@ + 1) % rb.capacity],
        ok |-> TRUE]

\* write(I, Q): result ring and the bool returned
RingWrite(rb, s) ==
  IF space(rb) < 1
  THEN [rb |-> [rb EXCEPT !.overrunCount = @ + 1], ok |-> FALSE]
  ELSE [rb |-> [rb EXCEPT !.buffer[rb.writePos] = s,
                          !.writePos = (@ + 1) % rb.capacity],
        ok |-> TRUE]

RingRead_nocount(rb) ==
  IF available(rb) < 1
  THEN [rb |-> rb, ok |-> FALSE, s |-> Zero]
  ELSE [rb |-> [rb EXCEPT !.readPos = (@ + 1) % rb.capacity],
        ok |-> TRUE, s |-> rb.buffer[rb.readPos]]

RingRead_peek(rb) ==
  IF available(rb) < 1
  THEN [rb |-> [rb EXCEPT !.underrunCount = @ + 1], ok |-> FALSE, s |-> Zero]
  ELSE [rb |-> rb, ok |-> TRUE, s |-> rb.buffer[rb.readPos]]

RingRead_newest(rb) ==
  IF available(rb) < 1
  THEN [rb |-> [rb EXCEPT !.underrunCount = @ + 1], ok |-> FALSE, s |-> Zero]
  ELSE [rb |-> [rb EXCEPT !.readPos = (@ + 1) % rb.capacity],
        ok |-> TRUE,
        s |-> rb.buffer[(rb.writePos + rb.capacity - 1) % rb.capacity]]

\* read(I, Q): result ring, the bool returned and the sample read
RingRead(rb) ==
  IF available(rb) < 1
  THEN [rb |-> [rb EXCEPT !.underrunCount = @ + 1], ok |-> FALSE, s |-> Zero]
  ELSE [rb |-> [rb EXCEPT !.readPos = (@ + 1) % rb.capacity],
        ok |-> TRUE, s |-> rb.buffer[rb.readPos]]

\* mode tags of the server, and the iqMode StartRx passes for its rate
Modes == {"iq48", "iq96", "iq192"}
RateMode == "iq192"

\* no call with a receiver id out of range made yet
NoReport == [call |-> "none", id |-> 0, result |-> 0, log |-> ""]

\* the ring exercised by itself: no call made yet
NoOp == [op |-> "none", ok |-> FALSE, s |-> Zero, fifo |-> <<>>]

\* ------------------------------------------------- ConsumeRingBuffers
TargetTicks_t0(t0, n) == t0

\* target time of sample n in performance counter ticks
TargetTicks(t0, n) == t0 + ((n * PerfFreq) \div SampleRate)

\* the buffer a pointer refers to
Buf(i, b) == IF b = 1 THEN gData1[i] ELSE gData2[i]

\* continuation of the for loop over receiverID
ForNext(r) ==
  IF r + 1 < gSetRecvCount
  THEN /\ asmPc' = "rx" /\ receiverID' = r + 1
  ELSE /\ asmPc' = "pace" /\ receiverID' = 0

\* while (!gStopFlag) left: the thread ends
ConsumerExit ==
  /\ consumerAlive /\ asmPc = "loop" /\ gStopFlag
  /\ consumerAlive' = FALSE
  /\ asmPc' = "done"
  /\ receiverID' = 0
  /\ samplesProcessed' = 0
  /\ timingInitialized' = FALSE
  /\ startTime' = 0
  /\ targetTicks' = 0
  /\ tickClock' = 0
  /\ prevTickClock' = -1
  /\ UNCHANGED <<auxVars, thrVars, startReturn, asmVars, sdrVars, ringBuffer,
                 samplesReceived, sockVars, hostPc, clock, gDataTick,
                 callbacksSinceT0, appended, completed, delivered>>

\* loop head: idle sleep, timing initialisation, target time of this sample
ConsumerBeginTick ==
  /\ consumerAlive /\ asmPc = "loop" /\ ~gStopFlag
  /\ ticks < MaxTicks
  /\ ticks' = IF gActiveReceivers = 0 THEN ticks ELSE ticks + 1
  /\ IF gActiveReceivers = 0
     THEN /\ timingInitialized' = FALSE
          /\ samplesProcessed' = 0
          /\ UNCHANGED <<asmPc, receiverID, startTime, targetTicks,
                         callbacksSinceT0, tickClock, prevTickClock>>
     ELSE /\ timingInitialized' = TRUE
          /\ startTime' = IF timingInitialized THEN startTime ELSE clock
          /\ samplesProcessed' =
               IF timingInitialized THEN samplesProcessed ELSE 0
          /\ callbacksSinceT0' =
               IF timingInitialized THEN callbacksSinceT0 ELSE 0
          /\ targetTicks' = TargetTicks(startTime', samplesProcessed')
          /\ receiverID' = 0
          /\ asmPc' = IF gSetRecvCount > 0 THEN "rx" ELSE "pace"
          /\ prevTickClock' = IF timingInitialized THEN tickClock ELSE -1
          /\ tickClock' = clock
  /\ UNCHANGED <<auxVars, reconn, nextThread, startReturn,
                 asmVars, sdrVars, ringBuffer, samplesReceived, sockVars,
                 consumerAlive, hostPc, clock, gDataTick, appended,
                 completed, delivered>>

\* the sample written to the in-buffer: the one read, or silence on underrun
SampleOrSilence(r) == IF r.ok THEN r.s ELSE Zero

Fill_skip(r) == IF r.ok THEN 1 ELSE 0

\* slots the in-pointer and gDataSamples advance by for one read
Fill(r) == 1

\* one receiver in one tick: ring read (or silence), append to the in-buffer
ConsumeSample ==
  /\ consumerAlive /\ asmPc = "rx"
  /\ LET i == receiverID IN
     IF ~receivers[i].active
     THEN /\ ForNext(i)
          /\ UNCHANGED <<ringBuffer, gData1, gData2, gInPtr, gDataSamples,
                         gDataTick, appended>>
     ELSE LET r == RingRead(ringBuffer[i])
              p == gInPtr[i]
              v == SampleOrSilence(r)
          IN /\ ringBuffer' = [ringBuffer EXCEPT ![i] = r.rb]
             /\ gData1' = IF p.buf = 1
                          THEN [gData1 EXCEPT ![i][p.off] = v] ELSE gData1
             /\ gData2' = IF p.buf = 2
                          THEN [gData2 EXCEPT ![i][p.off] = v] ELSE gData2
             /\ gDataTick' =
                  [gDataTick EXCEPT ![i][p.buf][p.off] = samplesProcessed]
             /\ appended' = [appended EXCEPT ![i] = Append(@, v)]
             /\ gInPtr' = [gInPtr EXCEPT ![i].off = @ + Fill(r)]
             /\ gDataSamples' = [gDataSamples EXCEPT ![i] = @ + Fill(r)]
             /\ IF gDataSamples'[i] >= BlockLen
                THEN /\ asmPc' = "barrier" /\ UNCHANGED receiverID
                ELSE ForNext(i)
  /\ UNCHANGED <<auxVars, thrVars, startReturn,
                 gSetRecvCount, gStopFlag, gRxMask, gRxFilled,
                 gActiveReceivers, gOutPtr, gBucket, gDataCriticalSection,
                 totalCallbacks, sdrVars, samplesReceived, sockVars,
                 consumerAlive, samplesProcessed, timingInitialized,
                 startTime, targetTicks, hostPc, clock, callbacksSinceT0,
                 tickClock, prevTickClock, completed, delivered>>

MarkFilled_toggle(filled, bucket, i) ==
  [filled |-> filled \cup {i}, bucket |-> 1 - bucket]

\* if (!(gRxFilled & myBit)) { gRxFilled |= myBit; gBucket ^= 1; }
MarkFilled(filled, bucket, i) ==
  IF i \notin filled
  THEN [filled |-> filled \cup {i}, bucket |-> 1 - bucket]
  ELSE [filled |-> filled, bucket |-> bucket]

\* the double buffer switch: the buffer gInPtr / gOutPtr is set to
InBuf(bucket) == IF bucket = 1 THEN 2 ELSE 1

OutBuf_same(bucket) == InBuf(bucket)

OutBuf(bucket) == IF bucket = 1 THEN 1 ELSE 2

AllReady_any(filled, mask) == filled # {}

\* if (gRxFilled == gRxMask)
AllReady(filled, mask) == filled = mask

\* the critical section entered when a receiver's block is full
BarrierUpdate ==
  /\ consumerAlive /\ asmPc = "barrier"
  /\ gDataCriticalSection = "free"
  /\ LET i == receiverID
         m == MarkFilled(gRxFilled, gBucket[i], i)
     IN /\ gRxFilled' = m.filled
        /\ gBucket' = [gBucket EXCEPT ![i] = m.bucket]
        /\ gInPtr' = [gInPtr EXCEPT
                        ![i] = [buf |-> InBuf(m.bucket), off |-> 0]]
        /\ gOutPtr' = [gOutPtr EXCEPT ![i] = OutBuf(m.bucket)]
        /\ gDataSamples' = [gDataSamples EXCEPT ![i] = 0]
        /\ completed' = [completed EXCEPT ![i] = appended[i]]
        /\ appended' = [appended EXCEPT ![i] = <<>>]
        /\ IF AllReady(m.filled, gRxMask)
           THEN /\ totalCallbacks' = totalCallbacks + 1
                /\ gDataCriticalSection' = "consumer"
                /\ asmPc' = "callback"
                /\ delivered' =
                     [j \in Rx |->
                        IF j < gSetRecvCount
                        THEN delivered[j] \o
                               [p \in 1..BlockLen |->
                                  IF gOutPtr'[j] = 1 THEN gData1[j][p - 1]
                                  ELSE gData2[j][p - 1]]
                        ELSE delivered[j]]
                /\ UNCHANGED receiverID
           ELSE /\ ForNext(i)
                /\ UNCHANGED <<totalCallbacks, gDataCriticalSection,
                               delivered>>
  /\ UNCHANGED <<auxVars, thrVars, startReturn,
                 gSetRecvCount, gStopFlag, gData1, gData2, gRxMask,
                 gActiveReceivers, sdrVars, ringBuffer, samplesReceived,
                 sockVars, consumerAlive, samplesProcessed,
                 timingInitialized, startTime, targetTicks, hostPc, clock,
                 gDataTick, callbacksSinceT0, tickClock, prevTickClock>>

\* pIQProc has returned: gRxFilled = 0, LeaveCriticalSection
CallbackReturn ==
  /\ consumerAlive /\ asmPc = "callback"
  /\ gRxFilled' = {}
  /\ gDataCriticalSection' = "free"
  /\ callbacksSinceT0' = callbacksSinceT0 + 1
  /\ completed' = [i \in Rx |-> <<>>]
  /\ ForNext(receiverID)
  /\ UNCHANGED <<auxVars, thrVars, startReturn,
                 gSetRecvCount, gStopFlag, gData1, gData2, gDataSamples,
                 gRxMask, gActiveReceivers, gInPtr, gOutPtr, gBucket,
                 totalCallbacks, sdrVars, ringBuffer, samplesReceived,
                 sockVars, consumerAlive, samplesProcessed,
                 timingInitialized, startTime, targetTicks, hostPc, clock,
                 gDataTick, tickClock, prevTickClock, appended, delivered>>

WaitOver_never(now, target) == TRUE

\* the wait of this sample is over when the counter has reached targetTicks
WaitOver(now, target) == now >= target

\* samplesProcessed++ and the sleep / busy-wait until targetTicks
PaceWait ==
  /\ consumerAlive /\ asmPc = "pace"
  /\ WaitOver(clock, targetTicks)
  /\ samplesProcessed' = samplesProcessed + 1
  /\ asmPc' = "loop"
  /\ UNCHANGED <<auxVars, thrVars, startReturn,
                 asmVars, sdrVars, ringBuffer, samplesReceived, sockVars,
                 consumerAlive, receiverID, timingInitialized, startTime,
                 targetTicks, hostPc, clock, histVars>>

\* ---------------------------------------------------------------- clock
\* the performance counter advances by one tick
ClockAdvance ==
  /\ clock < MaxClock
  /\ clock' = clock + 1
  /\ UNCHANGED <<auxVars, thrVars, startReturn,
                 asmVars, sdrVars, ringBuffer, samplesReceived, sockVars,
                 consVars, hostPc, histVars>>

\* time passes while the consumer waits, up to the target of its sample
ClockWait ==
  /\ consumerAlive /\ asmPc = "pace"
  /\ clock < targetTicks
  /\ clock' = targetTicks
  /\ UNCHANGED <<auxVars, thrVars, startReturn,
                 asmVars, sdrVars, ringBuffer, samplesReceived, sockVars,
                 consVars, hostPc, histVars>>

\* ------------------------------------------------------------ UberSDR
Idle == [op |-> "idle"]

\* no URL
NoUrl == [frequency |-> 0, user_session_id |-> NULL]

\* CheckConnectionAllowed up to the HTTP POST: a fresh UUID is stored
StoreUuid(rcv, i, uuid) == [rcv EXCEPT ![i].sessionId = uuid]

\* BuildWebSocketURL: frequency and the stored session id
BuildWebSocketURL(rcv, i, frequency) ==
  [frequency |-> frequency, user_session_id |-> rcv[i].sessionId]

\* ConnectWebSocket up to start(): a new client object that captures the
\* receiver's generation in its callback; posted is the UUID the creating
\* path sent in its admission request (sessionIdCopy)
NewSocket(rcv, i, url, posted) ==
  [rx |-> i, gen |-> rcv[i].generation, url |-> url, posted |-> posted,
   st |-> "connecting", cb |-> TRUE, pings |-> 0]

\* ConnectWebSocket after the wait loop: 0 iff state is CONNECTED
ConnectResult(rcv, i) == IF rcv[i].state = "CONNECTED" THEN 0 ELSE 1

\* DisconnectWebSocket on the receiver record
DisconnectRcv(rcv, i) ==
  IF rcv[i].wsClient # NULL
  THEN [rcv EXCEPT ![i].generation = @ + 1, ![i].wsClient = NULL,
                   ![i].state = "DISCONNECTED"]
  ELSE [rcv EXCEPT ![i].state = "DISCONNECTED"]

\* DisconnectWebSocket on the client object: callback cleared, stop, delete
DisconnectSock(sk, rcv, i) ==
  IF rcv[i].wsClient # NULL
  THEN [sk EXCEPT ![rcv[i].wsClient].cb = FALSE,
                  ![rcv[i].wsClient].st = "deleted"]
  ELSE sk

\* no callback of the client is running
NoCallback == [ev |-> "none", isActive |-> FALSE]

\* stop() has joined the socket thread of every client that was stopped or
\* deleted: no callback of such a client is still running
CallbacksJoined ==
  \A s \in SockId :
     socks[s].st \in {"stopped", "deleted"} => inflight[s] = NoCallback

\* Alloc: both buffers of every receiver are reallocated and zeroed
ZeroBlock == [p \in 0..(BlockLen - 1) |-> Zero]

\* StartRx(pSettings) with pSettings->RecvCount = n
StartRx(n) ==
  /\ hostPc.op = "idle"
  /\ ~consumerAlive
  /\ gSetRecvCount' = n
  /\ gData1' = [i \in Rx |-> ZeroBlock]
  /\ gData2' = [i \in Rx |-> ZeroBlock]
  /\ gDataTick' = [i \in Rx |-> [b \in 1..2 |->
                     [p \in 0..(BlockLen - 1) |-> -1]]]
  /\ appended' = [i \in Rx |-> <<>>]
  /\ completed' = [i \in Rx |-> <<>>]
  /\ delivered' = [i \in Rx |-> <<>>]
  /\ gStopFlag' = FALSE
  /\ IF n > 0
     THEN /\ gRxMask' = 0..(n - 1)
          /\ gRxFilled' = {}
          /\ gActiveReceivers' = n
          /\ gDataSamples' = [i \in Rx |-> 0]
          /\ gBucket' = [i \in Rx |-> IF i < n THEN 0 ELSE gBucket[i]]
          /\ gInPtr' = [i \in Rx |->
                          IF i < n THEN [buf |-> 1, off |-> 0] ELSE gInPtr[i]]
          /\ gOutPtr' = [i \in Rx |-> IF i < n THEN 1 ELSE gOutPtr[i]]
          /\ sampleRate' = SampleRate
          /\ hostPc' = [op |-> "StartReceiver", i |-> 0, caller |-> "StartRx",
                        uuid |-> NULL, mode |-> RateMode]
     ELSE /\ gDataSamples' = [i \in Rx |-> 0]
          /\ UNCHANGED <<gRxMask, gRxFilled, gActiveReceivers, gBucket,
                         gInPtr, gOutPtr, sampleRate, hostPc>>
  /\ UNCHANGED <<auxVars, thrVars, startReturn,
                 gDataCriticalSection, totalCallbacks, receivers,
                 activeReceivers, ringBuffer, samplesReceived, sockVars,
                 consVars, clock, callbacksSinceT0, tickClock, prevTickClock>>

\* StartReceiver: ring buffer initialised, UUID stored, POST /connection sent
StartReceiverBegin ==
  /\ hostPc.op = "StartReceiver"
  /\ nextUuid <= uuidLimit
  /\ LET i == hostPc.i IN
     /\ ringBuffer' = [ringBuffer EXCEPT
                         ![i] = RingInit(@, (sampleRate * RingMs) \div 1000)]
     /\ receivers' = StoreUuid(receivers, i, nextUuid)
     /\ nextUuid' = nextUuid + 1
     /\ hostPc' = [hostPc EXCEPT !.op = "StartReceiverHttp",
                                 !.uuid = nextUuid]
  /\ UNCHANGED <<auxVars, thrVars, startReturn,
                 asmVars, activeReceivers, sampleRate, samplesReceived,
                 socks, nextSock, consVars, clock, histVars>>

\* the rest of the StartRx loop body after StartReceiver(i) has returned
\* result, then the next receiver or the consumer thread
StartRxNext(i) ==
  IF hostPc.caller = "api"
  THEN /\ hostPc' = Idle
       /\ UNCHANGED <<consumerAlive, asmPc, receiverID, samplesProcessed,
                      timingInitialized>>
  ELSE IF i + 1 < gSetRecvCount
  THEN /\ hostPc' = [op |-> "StartReceiver", i |-> i + 1, caller |-> "StartRx",
                     uuid |-> NULL, mode |-> RateMode]
       /\ UNCHANGED <<consumerAlive, asmPc, receiverID, samplesProcessed,
                      timingInitialized>>
  ELSE /\ hostPc' = Idle
       /\ consumerAlive' = TRUE
       /\ asmPc' = "loop"
       /\ receiverID' = 0
       /\ samplesProcessed' = 0
       /\ timingInitialized' = FALSE

AdmissionRejected_noerror(rcv, i) == [rcv EXCEPT ![i].active = FALSE]

\* CheckConnectionAllowed returned false: StartReceiver returns 1
AdmissionRejected(rcv, i) ==
  [rcv EXCEPT ![i].active = FALSE, ![i].state = "ERROR_STATE"]

\* receivers[receiverID].mode = mode
StoreMode(rcv, i, mode) == [rcv EXCEPT ![i].mode = mode]

\* CheckConnectionAllowed returned true: configuration stored, socket created
AdmissionAccepted(rcv, i, frequency, s) ==
  [rcv EXCEPT ![i].frequency = frequency, ![i].active = TRUE,
              ![i].state = "CONNECTING", ![i].wsClient = s]

\* StartReceiver: the POST has answered (allowed) or failed / was refused
StartReceiverHttp(allowed) ==
  /\ hostPc.op = "StartReceiverHttp"
  /\ LET i == hostPc.i IN
     IF ~allowed
     THEN /\ receivers' = AdmissionRejected(receivers, i)
          /\ startReturn' = [startReturn EXCEPT
                               ![i] = [allowed |-> FALSE, result |-> 1]]
          /\ StartRxNext(i)
          /\ UNCHANGED <<socks, nextSock>>
     ELSE /\ nextSock <= MaxSocks
          /\ LET url == BuildWebSocketURL(receivers, i, DefaultFreq) IN
             /\ socks' = [socks EXCEPT
                            ![nextSock] =
                              NewSocket(receivers, i, url, hostPc.uuid)]
             /\ receivers' =
                  StoreMode(AdmissionAccepted(receivers, i, DefaultFreq,
                                              nextSock), i, hostPc.mode)
          /\ nextSock' = nextSock + 1
          /\ startReturn' = [startReturn EXCEPT
                               ![i] = [allowed |-> TRUE, result |-> -1]]
          /\ hostPc' = [hostPc EXCEPT !.op = "ConnectWait"]
          /\ UNCHANGED <<consumerAlive, asmPc, receiverID, samplesProcessed,
                         timingInitialized>>
  /\ admitted' = IF allowed THEN admitted \cup {hostPc.uuid} ELSE admitted
  /\ UNCHANGED <<lastOp, report, uuidLimit, threadLimit, inflight, tuneMsg, rxGen, thrVars,
                 asmVars, activeReceivers, sampleRate, ringBuffer,
                 samplesReceived, nextUuid, startTime, targetTicks, clock,
                 histVars>>

\* StartReceiver after ConnectWebSocket returned result
StartReceiverResult(rcv, i, result) ==
  IF result = 0
  THEN [rcv EXCEPT ![i].state = "CONNECTED"]
  ELSE [rcv EXCEPT ![i].state = "ERROR_STATE", ![i].active = FALSE]

\* ConnectWebSocket wait loop left (state changed or 5 s elapsed) in
\* StartReceiver
StartReceiverConnected ==
  /\ hostPc.op = "ConnectWait" /\ hostPc.caller \in {"StartRx", "api"}
  /\ LET i == hostPc.i
         result == ConnectResult(receivers, i)
     IN /\ receivers' = StartReceiverResult(receivers, i, result)
        /\ activeReceivers' =
             IF result = 0 THEN activeReceivers + 1 ELSE activeReceivers
        /\ startReturn' = [startReturn EXCEPT ![i].result = result]
        /\ StartRxNext(i)
  /\ UNCHANGED <<auxVars, thrVars,
                 asmVars, sampleRate, ringBuffer, samplesReceived, sockVars,
                 startTime, targetTicks, clock, histVars>>

\* SetFrequency, tune message not sent: DisconnectWebSocket, then the UUID
\* of CheckConnectionAllowed is stored and the POST sent
TuneFailed(rcv, i, uuid) == StoreUuid(DisconnectRcv(rcv, i), i, uuid)

\* the tune message for frequency f
TuneMessage(f) == [type |-> "tune", frequency |-> f]

Tuned_keep(rcv, i, f) == rcv

\* receivers[receiverID].frequency = frequency
Tuned(rcv, i, f) == [rcv EXCEPT ![i].frequency = f]

NotActive_never(rcv, i) == FALSE

\* if (!myUberSDR.receivers[Receiver].active)
NotActive(rcv, i) == ~rcv[i].active

\* calls of SetRxFrequency are not recorded / none has been recorded yet
NotRecorded == <<>>
NoCall == [rx |-> MaxRx, frequency |-> 0, sent |-> <<>>, seq |-> 0]

\* the record of a call with the messages it sent, where calls are recorded
Recorded(i, f, sent) ==
  IF tuneMsg = NotRecorded THEN NotRecorded
  ELSE [rx |-> i, frequency |-> f, sent |-> sent, seq |-> 1 - tuneMsg.seq]

\* SetRxFrequency(Frequency, Receiver): ignored for an inactive receiver,
\* else UberSDR::SetFrequency; sendOk is whether wsClient->send returned
\* without throwing
SetRxFrequency(i, f, sendOk) ==
  /\ hostPc.op = "idle"
  /\ IF NotActive(receivers, i)
     THEN /\ tuneMsg' = Recorded(i, f, <<>>)
          /\ UNCHANGED <<receivers, socks, nextUuid, hostPc>>
     ELSE IF receivers[i].wsClient # NULL
     THEN IF sendOk
          THEN /\ receivers' = Tuned(receivers, i, f)
               /\ tuneMsg' = Recorded(i, f, <<TuneMessage(f)>>)
               /\ UNCHANGED <<socks, nextUuid, hostPc>>
          ELSE /\ nextUuid <= uuidLimit
               /\ receivers' = TuneFailed(receivers, i, nextUuid)
               /\ socks' = DisconnectSock(socks, receivers, i)
               /\ nextUuid' = nextUuid + 1
               /\ hostPc' = [op |-> "SetFrequencyHttp", i |-> i, f |-> f,
                             caller |-> "SetFrequency", uuid |-> nextUuid]
               /\ tuneMsg' = Recorded(i, f, <<>>)
     ELSE /\ receivers' = Tuned(receivers, i, f)
          /\ tuneMsg' = Recorded(i, f, <<>>)
          /\ UNCHANGED <<socks, nextUuid, hostPc>>
  /\ UNCHANGED <<lastOp, report, uuidLimit, threadLimit, admitted, inflight, rxGen, thrVars, startReturn,
                 asmVars, activeReceivers, sampleRate, ringBuffer,
                 samplesReceived, nextSock, consVars, clock, histVars>>

\* SetFrequency reconnect: the POST has answered
SetFrequencyHttp(allowed) ==
  /\ CallbacksJoined
  /\ hostPc.op = "SetFrequencyHttp"
  /\ LET i == hostPc.i IN
     IF ~allowed
     THEN /\ hostPc' = Idle
          /\ UNCHANGED <<receivers, socks, nextSock>>
     ELSE /\ nextSock <= MaxSocks
          /\ LET url == BuildWebSocketURL(receivers, i, hostPc.f) IN
             /\ socks' = [socks EXCEPT
                            ![nextSock] =
                              NewSocket(receivers, i, url, hostPc.uuid)]
             /\ receivers' = [Tuned(receivers, i, hostPc.f) EXCEPT
                                ![i].state = "CONNECTING",
                                ![i].wsClient = nextSock]
          /\ nextSock' = nextSock + 1
          /\ hostPc' = [hostPc EXCEPT !.op = "ConnectWait"]
  /\ admitted' = IF allowed THEN admitted \cup {hostPc.uuid} ELSE admitted
  /\ UNCHANGED <<lastOp, report, uuidLimit, threadLimit, inflight, tuneMsg, rxGen, thrVars, startReturn,
                 asmVars, activeReceivers, sampleRate, ringBuffer,
                 samplesReceived, nextUuid, consVars, clock, histVars>>

\* ConnectWebSocket wait loop left in the SetFrequency reconnect
SetFrequencyConnected ==
  /\ hostPc.op = "ConnectWait" /\ hostPc.caller = "SetFrequency"
  /\ LET i == hostPc.i
         result == ConnectResult(receivers, i)
     IN /\ receivers' = StartReceiverResult(receivers, i, result)
  /\ hostPc' = Idle
  /\ UNCHANGED <<auxVars, thrVars, startReturn,
                 asmVars, activeReceivers, sampleRate, ringBuffer,
                 samplesReceived, sockVars, consVars, clock, histVars>>

\* StopRx: gStopFlag set, the host waits for the consumer thread
StopRx ==
  /\ hostPc.op = "idle"
  /\ gStopFlag' = TRUE
  /\ hostPc' = [op |-> "StopRxWait"]
  /\ UNCHANGED <<auxVars, thrVars, startReturn,
                 gSetRecvCount, gData1, gData2, gDataSamples, gRxMask,
                 gRxFilled, gActiveReceivers, gInPtr, gOutPtr, gBucket,
                 gDataCriticalSection, totalCallbacks, sdrVars, ringBuffer,
                 samplesReceived, sockVars, consVars, clock, histVars>>

\* continuation of the StopRx loop over the receivers
StopRxNext(i) ==
  IF i + 1 < gSetRecvCount
  THEN hostPc' = [op |-> "StopReceiver", i |-> i + 1]
  ELSE hostPc' = Idle

\* StopRx: WaitForSingleObject(ghRingBufferConsumer, 1000) has returned:
\* the thread ended, or the second elapsed while the consumer was inside
\* the host's callback (every other step of its loop takes at most one
\* sample period and is followed by the test of gStopFlag)
StopRxWaited ==
  /\ hostPc.op = "StopRxWait"
  /\ ~consumerAlive \/ asmPc = "callback"
  /\ IF gSetRecvCount > 0
     THEN hostPc' = [op |-> "StopReceiver", i |-> 0]
     ELSE hostPc' = Idle
  /\ UNCHANGED <<auxVars, thrVars, startReturn,
                 asmVars, sdrVars, ringBuffer, samplesReceived, sockVars,
                 consVars, clock, histVars>>

\* StopReceiver on the receiver record
StopReceiverRcv(rcv, i) ==
  [DisconnectRcv(rcv, i) EXCEPT ![i].active = FALSE,
                                ![i].needsReconnect = FALSE,
                                ![i].state = "DISCONNECTED",
                                ![i].reconnectThread = NULL]

\* StopReceiver up to the wait for the reconnection thread: the flags
StopReceiverFlags(rcv, i) ==
  [rcv EXCEPT ![i].active = FALSE, ![i].needsReconnect = FALSE,
              ![i].state = "DISCONNECTED"]

StopReceiver_reset ==
  /\ hostPc.op = "StopReceiver"
  /\ LET i == hostPc.i IN
     IF ~receivers[i].active
     THEN /\ UNCHANGED <<receivers, socks, activeReceivers>>
          /\ StopRxNext(i)
     ELSE IF receivers[i].reconnectThread = NULL
     THEN /\ receivers' = StopReceiverRcv(receivers, i)
          /\ socks' = DisconnectSock(socks, receivers, i)
          /\ activeReceivers' =
               IF activeReceivers > 0 THEN activeReceivers - 1
               ELSE activeReceivers
          /\ StopRxNext(i)
     ELSE /\ receivers' = StopReceiverFlags(receivers, i)
          /\ hostPc' = [op |-> "StopReceiverWait", i |-> i,
                        threadHandle |-> receivers[i].reconnectThread]
          /\ UNCHANGED <<socks, activeReceivers>>
  /\ gDataSamples' = [j \in Rx |-> 0]
  /\ UNCHANGED <<auxVars, thrVars, startReturn,
                 gSetRecvCount, gStopFlag, gData1, gData2, gRxMask,
                 gRxFilled, gActiveReceivers, gInPtr, gOutPtr, gBucket,
                 gDataCriticalSection, totalCallbacks, sampleRate, ringBuffer,
                 samplesReceived, nextSock, nextUuid, consVars, clock,
                 histVars>>

\* StopRx loop body: StopReceiver(i) if receiver i is active; with a
\* reconnection thread handle it goes on after WaitForSingleObject
StopReceiver ==
  /\ hostPc.op = "StopReceiver"
  /\ LET i == hostPc.i IN
     IF ~receivers[i].active
     THEN /\ UNCHANGED <<receivers, socks, activeReceivers>>
          /\ StopRxNext(i)
     ELSE IF receivers[i].reconnectThread = NULL
     THEN /\ receivers' = StopReceiverRcv(receivers, i)
          /\ socks' = DisconnectSock(socks, receivers, i)
          /\ activeReceivers' =
               IF activeReceivers > 0 THEN activeReceivers - 1
               ELSE activeReceivers
          /\ StopRxNext(i)
     ELSE /\ receivers' = StopReceiverFlags(receivers, i)
          /\ hostPc' = [op |-> "StopReceiverWait", i |-> i,
                        threadHandle |-> receivers[i].reconnectThread]
          /\ UNCHANGED <<socks, activeReceivers>>
  /\ UNCHANGED <<auxVars, thrVars, startReturn,
                 asmVars, sampleRate, ringBuffer, samplesReceived, nextSock,
                 nextUuid, consVars, clock, histVars>>

\* the reconnection thread is in one of its waits: Sleep(retryDelay), the
\* HTTP round trip, Sleep(100) or the wait loop of ConnectWebSocket
Blocked(t) == reconn[t].pc \in {"sleep", "http", "dispose", "wait"}

\* StopReceiver after WaitForSingleObject(threadHandle, 5000): the thread
\* has ended, or the five seconds elapsed while it was in one of its waits
StopReceiverWaited ==
  /\ hostPc.op = "StopReceiverWait"
  /\ reconn[hostPc.threadHandle].pc = "done" \/ Blocked(hostPc.threadHandle)
  /\ LET i == hostPc.i
         rcv == [receivers EXCEPT ![i].reconnectThread = NULL]
     IN /\ receivers' = DisconnectRcv(rcv, i)
        /\ socks' = DisconnectSock(socks, rcv, i)
        /\ StopRxNext(i)
  /\ activeReceivers' = IF activeReceivers > 0 THEN activeReceivers - 1
                        ELSE activeReceivers
  /\ UNCHANGED <<auxVars, thrVars, startReturn,
                 asmVars, sampleRate, ringBuffer, samplesReceived, nextSock,
                 nextUuid, consVars, clock, histVars>>

\* ------------------------------------------------- WebSocket callback
\* head of the message callback: stale generation or wsClient == nullptr
Ignored(rcv, sk) ==
  \/ ~sk.cb
  \/ rcv[sk.rx].generation # sk.gen
  \/ rcv[sk.rx].wsClient = NULL

\* the server accepted the connection: Open event
SockOpen(s) ==
  /\ socks[s].st = "connecting"
  /\ socks' = [socks EXCEPT ![s].st = "open"]
  /\ receivers' = IF Ignored(receivers, socks[s]) THEN receivers
                  ELSE [receivers EXCEPT ![socks[s].rx].state = "CONNECTED"]
  /\ UNCHANGED <<auxVars, thrVars, startReturn,
                 asmVars, activeReceivers, sampleRate, ringBuffer,
                 samplesReceived, nextSock, nextUuid, consVars, hostPc,
                 clock, histVars>>

\* the connection attempt failed: Error event
SockError(s) ==
  /\ socks[s].st = "connecting"
  /\ socks' = [socks EXCEPT ![s].st = "failed"]
  /\ receivers' = IF Ignored(receivers, socks[s]) THEN receivers
                  ELSE [receivers EXCEPT ![socks[s].rx].state = "ERROR_STATE"]
  /\ UNCHANGED <<auxVars, thrVars, startReturn,
                 asmVars, activeReceivers, sampleRate, ringBuffer,
                 samplesReceived, nextSock, nextUuid, consVars, hostPc,
                 clock, histVars>>

\* f[0] + ... + f[n]
RECURSIVE SumTo(_, _)
SumTo(f, n) == IF n < 0 THEN 0 ELSE f[n] + SumTo(f, n - 1)

\* samples decoded so far, all receivers
TotalReceived == SumTo(samplesReceived, MaxRx - 1)

\* an audio message: HandleWebSocketMessage, ProcessIQData decodes the next
\* sample of the receiver and writes it to the ring
SockMessage(s) ==
  /\ socks[s].st = "open"
  /\ ~Ignored(receivers, socks[s])
  /\ receivers[socks[s].rx].active
  /\ LET i == socks[s].rx IN
     /\ TotalReceived < MaxSamples
     /\ ringBuffer' = [ringBuffer EXCEPT
                         ![i] = RingWrite(@, samplesReceived[i] + 1).rb]
     /\ samplesReceived' = [samplesReceived EXCEPT ![i] = @ + 1]
     /\ rxGen' = [rxGen EXCEPT ![i] = Append(@, socks[s].gen)]
  /\ UNCHANGED <<lastOp, report, uuidLimit, threadLimit, admitted, inflight, tuneMsg, thrVars,
                 startReturn, asmVars, sdrVars, sockVars, consVars, hostPc,
                 clock, histVars>>

\* Close branch of the callback on the receiver record; thread is the
\* handle CreateThread returned (NULL when it failed)
CloseRcv(rcv, i, thread) ==
  IF rcv[i].active /\ ~rcv[i].needsReconnect
  THEN [rcv EXCEPT ![i].state = "DISCONNECTED",
                   ![i].needsReconnect = (thread # NULL),
                   ![i].reconnectThread = thread]
  ELSE [rcv EXCEPT ![i].state = "DISCONNECTED"]

\* the connection was closed by the server or lost: Close event; created is
\* whether CreateThread succeeded
SockClose(s, created) ==
  /\ socks[s].st = "open"
  /\ socks' = [socks EXCEPT ![s].st = "closed"]
  /\ LET i == socks[s].rx
         spawn == /\ ~Ignored(receivers, socks[s])
                  /\ receivers[i].active /\ ~receivers[i].needsReconnect
     IN IF spawn /\ created
        THEN /\ nextThread <= threadLimit
             /\ receivers' = CloseRcv(receivers, i, nextThread)
             /\ reconn' = [reconn EXCEPT
                             ![nextThread] = [rx |-> i, pc |-> "check",
                                              url |-> NoUrl, uuid |-> NULL,
                                              retryDelay |-> InitialDelay,
                                              attempt |-> 0,
                                             gen0 |-> receivers[i].generation]]
             /\ nextThread' = nextThread + 1
        ELSE /\ receivers' = IF Ignored(receivers, socks[s]) THEN receivers
                             ELSE CloseRcv(receivers, i, NULL)
             /\ UNCHANGED <<reconn, nextThread>>
  /\ UNCHANGED <<auxVars, asmVars, activeReceivers, sampleRate, ringBuffer,
                 samplesReceived, nextSock, nextUuid, consVars, hostPc,
                 clock, histVars, startReturn, ticks>>

\* ------------------------------- the callback, check and handling apart
\* the lock is released between the check at the head of the callback and
\* the handling of the event
Events == {"Open", "Message", "Close", "Error"}

\* callbacks that have passed the check and decode a message
PendingMessages == Cardinality({s \in SockId : inflight[s].ev = "Message"})

\* the socket thread of client s delivers event ev: the head of the callback
\* reads isStale, isActive and wsPtr under the lock and returns if the
\* event is to be ignored
CallbackBegin(s, ev) ==
  /\ inflight[s] = NoCallback
  /\ CASE ev = "Open" -> socks[s].st = "connecting"
       [] ev = "Error" -> socks[s].st = "connecting"
       [] ev = "Close" -> socks[s].st = "open"
       [] ev = "Message" -> /\ socks[s].st = "open"
                            /\ TotalReceived + PendingMessages < MaxSamples
  /\ socks' = [socks EXCEPT
                 ![s].st = CASE ev = "Open" -> "open"
                             [] ev = "Error" -> "failed"
                             [] ev = "Close" -> "closed"
                             [] ev = "Message" -> @]
  /\ LET isActive == receivers[socks[s].rx].active IN
     inflight' = IF \/ Ignored(receivers, socks[s])
                    \/ ev = "Message" /\ ~isActive
                 THEN inflight
                 ELSE [inflight EXCEPT
                         ![s] = [ev |-> ev, isActive |-> isActive]]
  /\ UNCHANGED <<lastOp, report, uuidLimit, threadLimit, admitted, tuneMsg, rxGen, thrVars, startReturn,
                 asmVars, sdrVars, ringBuffer, samplesReceived, nextSock,
                 nextUuid, consVars, hostPc, clock, histVars>>

\* the branch of the callback for the event, run on the receiver as it is
\* now; created is whether CreateThread succeeds
CallbackHandle(s, created) ==
  /\ inflight[s] # NoCallback
  /\ inflight' = [inflight EXCEPT ![s] = NoCallback]
  /\ LET i == socks[s].rx
         ev == inflight[s].ev
         spawn == /\ ev = "Close"
                  /\ receivers[i].active /\ ~receivers[i].needsReconnect
                  /\ receivers[i].generation = socks[s].gen
     IN /\ IF ev = "Message"
           THEN /\ ringBuffer' = [ringBuffer EXCEPT
                       ![i] = RingWrite(@, samplesReceived[i] + 1).rb]
                /\ samplesReceived' = [samplesReceived EXCEPT ![i] = @ + 1]
                /\ rxGen' = [rxGen EXCEPT ![i] = Append(@, socks[s].gen)]
           ELSE UNCHANGED <<ringBuffer, samplesReceived, rxGen>>
        /\ IF spawn /\ created
           THEN /\ nextThread <= threadLimit
                /\ receivers' = CloseRcv(receivers, i, nextThread)
                /\ reconn' = [reconn EXCEPT
                                ![nextThread] = [rx |-> i, pc |-> "check",
                                                 url |-> NoUrl,
                                                 uuid |-> NULL,
                                                 retryDelay |-> InitialDelay,
                                                 attempt |-> 0,
                                             gen0 |-> receivers[i].generation]]
                /\ nextThread' = nextThread + 1
           ELSE /\ receivers' =
                     CASE ev = "Open" ->
                            [receivers EXCEPT ![i].state = "CONNECTED"]
                       [] ev = "Error" ->
                            [receivers EXCEPT ![i].state = "ERROR_STATE"]
                       [] ev = "Close" ->
                            IF spawn THEN CloseRcv(receivers, i, NULL)
                            ELSE [receivers EXCEPT
                                    ![i].state = "DISCONNECTED"]
                       [] ev = "Message" -> receivers
                /\ UNCHANGED <<reconn, nextThread>>
  /\ UNCHANGED <<lastOp, report, uuidLimit, threadLimit, admitted, tuneMsg, ticks, startReturn,
                 asmVars, activeReceivers, sampleRate, sockVars, consVars,
                 hostPc, clock, histVars>>

\* ------------------------------------------------- HandleReconnection
NextDelay_nocap(retryDelay) == retryDelay * 2

\* retryDelay = (retryDelay * 2 > maxDelay) ? maxDelay : retryDelay * 2
NextDelay(retryDelay) ==
  IF retryDelay * 2 > MaxDelay THEN MaxDelay ELSE retryDelay * 2

\* head of the retry loop: attempt++, is the receiver still active and in
\* need of a reconnection
ReconnectCheck(t) ==
  /\ reconn[t].pc = "check"
  /\ LET i == reconn[t].rx IN
     reconn' = [reconn EXCEPT
                  ![t].attempt = @ + 1,
                  ![t].pc = IF receivers[i].active
                               /\ receivers[i].needsReconnect
                            THEN "sleep" ELSE "exit"]
  /\ UNCHANGED <<auxVars, asmVars, sdrVars, ringBuffer, samplesReceived, sockVars,
                 consVars, hostPc, clock, histVars, startReturn, nextThread, ticks>>

\* no longer needed: flags cleared, the thread returns
ReconnectExit(t) ==
  /\ reconn[t].pc = "exit"
  /\ receivers' = [receivers EXCEPT ![reconn[t].rx].needsReconnect = FALSE,
                                    ![reconn[t].rx].reconnectThread = NULL]
  /\ reconn' = [reconn EXCEPT ![t].pc = "done"]
  /\ UNCHANGED <<auxVars, asmVars, activeReceivers, sampleRate, ringBuffer,
                 samplesReceived, sockVars, consVars, hostPc, clock,
                 histVars, startReturn, nextThread, ticks>>

\* Sleep(retryDelay) over: CheckConnectionAllowed stores a UUID and posts
ReconnectPost(t) ==
  /\ reconn[t].pc = "sleep"
  /\ nextUuid <= uuidLimit
  /\ receivers' = StoreUuid(receivers, reconn[t].rx, nextUuid)
  /\ nextUuid' = nextUuid + 1
  /\ reconn' = [reconn EXCEPT ![t].pc = "http", ![t].uuid = nextUuid]
  /\ UNCHANGED <<auxVars, asmVars, activeReceivers, sampleRate, ringBuffer,
                 samplesReceived, socks, nextSock, consVars, hostPc, clock,
                 histVars, startReturn, nextThread, ticks>>

ReconnectConnecting_nostate(rcv, i, s) == [rcv EXCEPT ![i].wsClient = s]

\* the state of the receiver record when the thread calls ConnectWebSocket
ReconnectConnecting(rcv, i, s) ==
  [rcv EXCEPT ![i].state = "CONNECTING", ![i].wsClient = s]

\* the POST has answered: retry, or generation++, URL, the old client is
\* stopped (Sleep(100) follows) or, without an old client, the new one made
ReconnectHttp(t, allowed) ==
  /\ reconn[t].pc = "http"
  /\ LET i == reconn[t].rx
         rcv == [receivers EXCEPT ![i].generation = @ + 1]
         url == BuildWebSocketURL(rcv, i, rcv[i].frequency)
     IN IF ~allowed
        THEN /\ reconn' = [reconn EXCEPT
                             ![t].pc = "check",
                             ![t].retryDelay = NextDelay(@)]
             /\ UNCHANGED <<receivers, socks, nextSock>>
        ELSE IF receivers[i].wsClient # NULL
        THEN /\ receivers' = rcv
             /\ socks' = [socks EXCEPT ![rcv[i].wsClient].cb = FALSE,
                                       ![rcv[i].wsClient].st = "stopped"]
             /\ reconn' = [reconn EXCEPT ![t].pc = "dispose", ![t].url = url]
             /\ UNCHANGED nextSock
        ELSE /\ nextSock <= MaxSocks
             /\ socks' = [socks EXCEPT
                            ![nextSock] = NewSocket(rcv, i, url, reconn[t].uuid)]
             /\ receivers' = ReconnectConnecting(rcv, i, nextSock)
             /\ nextSock' = nextSock + 1
             /\ reconn' = [reconn EXCEPT ![t].pc = "wait", ![t].url = url]
  /\ admitted' = IF allowed THEN admitted \cup {reconn[t].uuid} ELSE admitted
  /\ UNCHANGED <<lastOp, report, uuidLimit, threadLimit, inflight, tuneMsg, rxGen, asmVars, activeReceivers, sampleRate, ringBuffer,
                 samplesReceived, nextUuid, consVars, hostPc, clock,
                 histVars, startReturn, nextThread, ticks>>

\* after Sleep(100): the client the record points to now is deleted, then
\* ConnectWebSocket makes the new one
ReconnectDispose(t) ==
  /\ reconn[t].pc = "dispose"
  /\ CallbacksJoined
  /\ nextSock <= MaxSocks
  /\ LET i == reconn[t].rx
         old == receivers[i].wsClient
         sk == IF old # NULL
               THEN [socks EXCEPT ![old].cb = FALSE, ![old].st = "deleted"]
               ELSE socks
     IN /\ socks' = [sk EXCEPT
                       ![nextSock] = NewSocket(receivers, i, reconn[t].url,
                                               reconn[t].uuid)]
        /\ receivers' = ReconnectConnecting(receivers, i, nextSock)
  /\ nextSock' = nextSock + 1
  /\ reconn' = [reconn EXCEPT ![t].pc = "wait"]
  /\ UNCHANGED <<auxVars, asmVars, activeReceivers, sampleRate, ringBuffer,
                 samplesReceived, nextUuid, consVars, hostPc, clock,
                 histVars, startReturn, nextThread, ticks>>

\* HandleReconnection after ConnectWebSocket returned result
ReconnectResult(rcv, i, result) ==
  IF result = 0
  THEN [rcv EXCEPT ![i].state = "CONNECTED", ![i].needsReconnect = FALSE,
                   ![i].reconnectThread = NULL]
  ELSE rcv

\* ConnectWebSocket wait loop left in the reconnection thread: the state is
\* read without the lock, the result decides between success and retry
ReconnectConnected(t) ==
  /\ reconn[t].pc = "wait"
  /\ reconn' = IF ConnectResult(receivers, reconn[t].rx) = 0
                THEN [reconn EXCEPT ![t].pc = "success"]
                ELSE [reconn EXCEPT ![t].pc = "check",
                                    ![t].retryDelay = NextDelay(@)]
  /\ UNCHANGED <<auxVars, asmVars, sdrVars, ringBuffer, samplesReceived,
                 sockVars, consVars, hostPc, clock, histVars, startReturn,
                 nextThread, ticks>>

\* result == 0: the lock is taken and the reconnection recorded as done
ReconnectSuccess(t) ==
  /\ reconn[t].pc = "success"
  /\ receivers' = ReconnectResult(receivers, reconn[t].rx, 0)
  /\ reconn' = [reconn EXCEPT ![t].pc = "done"]
  /\ UNCHANGED <<auxVars, asmVars, activeReceivers, sampleRate, ringBuffer,
                 samplesReceived, sockVars, consVars, hostPc, clock,
                 histVars, startReturn, nextThread, ticks>>

\* ------------------------------------------------------------ behaviours
NewReceiver ==
  [frequency |-> DefaultFreq, mode |-> "iq192", active |-> FALSE,
   state |-> "DISCONNECTED",
   sessionId |-> NULL, wsClient |-> NULL, generation |-> 0,
   needsReconnect |-> FALSE, reconnectThread |-> NULL]

NoSocket ==
  [rx |-> 0, gen |-> 0, url |-> NoUrl, posted |-> NULL,
   st |-> "unused", cb |-> FALSE, pings |-> 0]

\* the state after construction of myUberSDR and the DLL globals
Constructed ==
  /\ gSetRecvCount = 0
  /\ gStopFlag = FALSE
  /\ gData1 = [i \in Rx |-> ZeroBlock]
  /\ gData2 = [i \in Rx |-> ZeroBlock]
  /\ gDataSamples = [i \in Rx |-> 0]
  /\ gRxMask = {}
  /\ gRxFilled = {}
  /\ gActiveReceivers = 0
  /\ gInPtr = [i \in Rx |-> [buf |-> NULL, off |-> 0]]
  /\ gOutPtr = [i \in Rx |-> NULL]
  /\ gBucket = [i \in Rx |-> 0]
  /\ gDataCriticalSection = "free"
  /\ totalCallbacks = 0
  /\ receivers = [i \in Rx |-> NewReceiver]
  /\ ringBuffer = [i \in Rx |-> RingNew]
  /\ activeReceivers = 0
  /\ sampleRate = DefaultSampleRate
  /\ socks = [s \in SockId |-> NoSocket]
  /\ nextSock = 1
  /\ nextUuid = 1
  /\ samplesReceived = [i \in Rx |-> 0]
  /\ consumerAlive = FALSE
  /\ asmPc = "none"
  /\ receiverID = 0
  /\ samplesProcessed = 0
  /\ timingInitialized = FALSE
  /\ startTime = 0
  /\ targetTicks = 0
  /\ hostPc = Idle
  /\ clock = 0
  /\ gDataTick = [i \in Rx |-> [b \in 1..2 |->
                    [p \in 0..(BlockLen - 1) |-> -1]]]
  /\ startReturn = [i \in Rx |-> [allowed |-> FALSE, result |-> -1]]
  /\ reconn = [t \in ThreadId |->
              [rx |-> 0, pc |-> "unused", url |-> NoUrl, uuid |-> NULL,
               retryDelay |-> InitialDelay, attempt |-> 0, gen0 |-> 0]]
  /\ nextThread = 1
  /\ ticks = 0
  /\ callbacksSinceT0 = 0
  /\ appended = [i \in Rx |-> <<>>]
  /\ completed = [i \in Rx |-> <<>>]
  /\ delivered = [i \in Rx |-> <<>>]
  /\ tickClock = 0
  /\ prevTickClock = -1
  /\ inflight = [s \in SockId |-> NoCallback]
  /\ admitted = {}
  /\ rxGen = [i \in Rx |-> <<>>]
  /\ lastOp = NoOp
  /\ report = NoReport

Init == Constructed /\ uuidLimit = MaxUuid /\ threadLimit = MaxThreads /\ tuneMsg = NotRecorded

Consumer ==
  \/ ConsumerExit
  \/ ConsumerBeginTick
  \/ ConsumeSample
  \/ BarrierUpdate
  \/ CallbackReturn
  \/ PaceWait

HostStart ==
  \/ \E n \in 0..MaxRx : StartRx(n)
  \/ StartReceiverBegin
  \/ \E allowed \in BOOLEAN : StartReceiverHttp(allowed)
  \/ StartReceiverConnected

HostTune ==
  \/ \E i \in Rx, f \in Freqs, sendOk \in BOOLEAN : SetRxFrequency(i, f, sendOk)
  \/ \E allowed \in BOOLEAN : SetFrequencyHttp(allowed)
  \/ SetFrequencyConnected

HostStop ==
  \/ StopRx
  \/ StopRxWaited
  \/ StopReceiver

\* the block assembler with its producers and the host, on schedule
NextAsm ==
  \/ Consumer
  \/ HostStart
  \/ HostStop
  \/ \E s \in SockId : SockOpen(s)
  \/ \E s \in SockId : SockMessage(s)
  \/ ClockWait

SpecAsm == Init /\ [][NextAsm]_vars

\* the pacing of one consumer thread against a free-running clock: the host
\* starts the receivers, the sockets open or time out, no audio arrives
NextPace ==
  \/ ConsumerBeginTick
  \/ ConsumeSample
  \/ BarrierUpdate
  \/ CallbackReturn
  \/ PaceWait
  \/ HostStart
  \/ \E s \in SockId : SockOpen(s)
  \/ ClockAdvance

SpecPace == Init /\ [][NextPace]_vars

Reconnection ==
  \/ \E t \in ThreadId : ReconnectCheck(t)
  \/ \E t \in ThreadId : ReconnectExit(t)
  \/ \E t \in ThreadId : ReconnectPost(t)
  \/ \E t \in ThreadId, allowed \in BOOLEAN : ReconnectHttp(t, allowed)
  \/ \E t \in ThreadId : ReconnectDispose(t)
  \/ \E t \in ThreadId : ReconnectConnected(t)
  \/ \E t \in ThreadId : ReconnectSuccess(t)

\* the session lifecycle of the receivers: host calls, socket events and
\* reconnection threads; the consumer thread only ends
NextSess ==
  \/ HostStart
  \/ HostTune
  \/ HostStop
  \/ StopReceiverWaited
  \/ ConsumerExit
  \/ \E s \in SockId : SockOpen(s)
  \/ \E s \in SockId : SockError(s)
  \/ \E s \in SockId, created \in BOOLEAN : SockClose(s, created)
  \/ Reconnection

SpecSess == Init /\ [][NextSess]_vars

\* the admission paths of the receivers of one StartRx: the start, the
\* retune and the reconnection threads, with one UUID more than the starts
\* draw
InitAdm ==
  Constructed /\ uuidLimit = MaxUuid + 1 /\ threadLimit = MaxThreads /\ tuneMsg = NotRecorded

NextAdm ==
  \/ HostStart
  \/ HostTune
  \/ \E s \in SockId : SockOpen(s)
  \/ \E s \in SockId : SockError(s)
  \/ \E s \in SockId, created \in BOOLEAN : SockClose(s, created)
  \/ Reconnection

SpecAdm == InitAdm /\ [][NextAdm]_vars

\* one StartRx, servers that close connections, reconnection threads that
\* CreateThread always starts; threads and the host keep running, and a
\* server that can admit or accept again and again eventually does
NextLive ==
  \/ HostStart
  \/ \E s \in SockId : SockOpen(s)
  \/ \E s \in SockId : SockClose(s, TRUE)
  \/ Reconnection

FairLive ==
  /\ WF_vars(HostStart)
  /\ \A t \in ThreadId :
        /\ WF_vars(ReconnectCheck(t))
        /\ WF_vars(ReconnectExit(t))
        /\ WF_vars(ReconnectPost(t))
        /\ WF_vars(\E allowed \in BOOLEAN : ReconnectHttp(t, allowed))
        /\ SF_vars(ReconnectHttp(t, TRUE))
        /\ WF_vars(ReconnectDispose(t))
        /\ WF_vars(ReconnectConnected(t))
        /\ WF_vars(ReconnectSuccess(t))
  /\ \A s \in SockId : SF_vars(SockOpen(s))

\* one StartRx with retunes and reconnections, every socket event in two
\* steps: the check of the callback and the handling
NextRace ==
  \/ HostStart
  \/ HostTune
  \/ \E s \in SockId, ev \in Events : CallbackBegin(s, ev)
  \/ \E s \in SockId, created \in BOOLEAN : CallbackHandle(s, created)
  \/ Reconnection

SpecRace == InitAdm /\ [][NextRace]_vars

\* one StartRx, its consumer thread on schedule, audio, servers that close
\* connections and the reconnection threads
NextRing ==
  \/ HostStart
  \/ ConsumerBeginTick
  \/ ConsumeSample
  \/ BarrierUpdate
  \/ CallbackReturn
  \/ PaceWait
  \/ ClockWait
  \/ \E s \in SockId : SockOpen(s)
  \/ \E s \in SockId : SockMessage(s)
  \/ \E s \in SockId : SockClose(s, TRUE)
  \/ Reconnection

SpecRing == Init /\ [][NextRing]_vars

\* the host starts the receivers and retunes them, the calls of
\* SetRxFrequency are recorded
InitTune == Constructed /\ uuidLimit = MaxUuid + 1 /\ threadLimit = MaxThreads /\ tuneMsg = NoCall

NextTune ==
  \/ HostStart
  \/ HostTune
  \/ \E s \in SockId : SockOpen(s)
  \/ \E s \in SockId : SockError(s)

SpecTune == InitTune /\ [][NextTune]_vars

\* one StartRx with one receiver, a server that closes the connection and
\* reconnection threads with UUIDs for MaxAttempts attempts
InitBackoff ==
  Constructed /\ uuidLimit = MaxAttempts + 1 /\ threadLimit = MaxThreads /\ tuneMsg = NotRecorded

NextBackoff ==
  \/ StartRx(1)
  \/ StartReceiverBegin
  \/ \E allowed \in BOOLEAN : StartReceiverHttp(allowed)
  \/ StartReceiverConnected
  \/ \E s \in SockId : SockOpen(s)
  \/ \E s \in SockId : SockClose(s, TRUE)
  \/ Reconnection

SpecBackoff == InitBackoff /\ [][NextBackoff]_vars

SpecLive == InitAdm /\ [][NextLive]_vars /\ FairLive

\* ------------------------------------------------------------------ claims
\* receivers of the current StartRx
RxSet == 0..(gSetRecvCount - 1)

\* receivers of the current StartRx that are active
ActiveSet == {i \in RxSet : receivers[i].active}

\* the consumer thread is inside pIQProc
InCallback == consumerAlive /\ asmPc = "callback"

C2_MaskIffActive ==
  hostPc = Idle =>
    \A i \in Rx : /\ (i \in gRxMask) <=> receivers[i].active
                  /\ ~receivers[i].active => i \notin gRxFilled

\* C3: when a receiver of the run is inactive and the others are active,
\* the barrier update at which every still-active receiver has completed
\* its block invokes the callback.
C3_InactiveReleasesOthers ==
  [][(/\ consumerAlive /\ asmPc = "barrier" /\ asmPc' # "barrier"
      /\ ActiveSet # {} /\ ActiveSet # RxSet
      /\ ActiveSet \subseteq gRxFilled')
     => asmPc' = "callback"]_vars

C7_OneSamplePerTick ==
  [][/\ (consumerAlive /\ asmPc = "rx") => ENABLED ConsumeSample
     /\ (/\ consumerAlive /\ asmPc = "rx"
         /\ <<asmPc, receiverID>>' # <<asmPc, receiverID>>
         /\ receivers[receiverID].active)
        => LET i == receiverID
               rb == ringBuffer[i]
           IN /\ appended'[i] =
                   Append(appended[i],
                          IF available(rb) = 0 THEN Zero
                          ELSE rb.buffer[rb.readPos])
              /\ gInPtr'[i] = [gInPtr[i] EXCEPT !.off = @ + 1]
              /\ (IF gInPtr[i].buf = 1 THEN gData1' ELSE gData2')
                   [i][gInPtr[i].off] = appended'[i][Len(appended'[i])]
              /\ ringBuffer'[i].underrunCount =
                   rb.underrunCount + (IF available(rb) = 0 THEN 1 ELSE 0)
              /\ \A j \in Rx \ {i} : appended'[j] = appended[j]]_vars

\* in one round a receiver has appended silence for an empty ring and
\* another receiver a decoded sample
C7_Witness ==
  /\ consumerAlive
  /\ \E i, j \in ActiveSet :
       /\ i # j
       /\ ringBuffer[i].underrunCount >= 1
       /\ \E a \in DOMAIN appended[i] : appended[i][a] = Zero
       /\ \E a \in DOMAIN appended[j] : appended[j][a] # Zero

\* the consumer thread is inside tick number samplesProcessed, which it
\* began at tickClock; the tick before began at prevTickClock
InTick == consumerAlive /\ asmPc \in {"rx", "barrier", "callback", "pace"}

\* T0 + n / sampleRate in clock ticks
Due(n) == startTime + ((n * PerfFreq) \div SampleRate)

\* C8 as stated: two consecutive ticks are never begun less than one sample
\* period apart.
C8_NeverFasterThanPeriod ==
  (InTick /\ prevTickClock >= 0)
    => tickClock - prevTickClock >= PerfFreq \div SampleRate

\* C8 as amended: tick n + 1 (n >= 1) begins after tick n by at least the
\* scheduled distance of their target times less the time by which tick n
\* itself began late; ticks that follow a late tick, and the first two
\* ticks, may follow each other at once.
C8_PeriodLessLateness ==
  (InTick /\ samplesProcessed >= 2)
    => tickClock - prevTickClock >=
         (Due(samplesProcessed - 1) - Due(samplesProcessed - 2))
           - (prevTickClock - Due(samplesProcessed - 2))

\* a tick that began late is followed by the next tick less than a sample
\* period later
C8_Witness ==
  /\ InTick /\ samplesProcessed >= 2
  /\ prevTickClock > Due(samplesProcessed - 2)
  /\ tickClock - prevTickClock < PerfFreq \div SampleRate

\* C9 as stated: sample n is read when the clock has reached
\* T0 + n / sampleRate.
C9_WaitBeforeRead ==
  (consumerAlive /\ asmPc = "rx") => clock >= Due(samplesProcessed)

\* C9 as amended: sample n >= 1 is read when the clock has reached
\* T0 + (n - 1) / sampleRate, sample 0 at T0.
C9_WaitAfterRead ==
  (consumerAlive /\ asmPc = "rx")
    => clock >= Due(IF samplesProcessed >= 1 THEN samplesProcessed - 1 ELSE 0)

\* sample n >= 2 is read at the target time of sample n - 1, before its own
C9_Witness ==
  /\ consumerAlive /\ asmPc = "rx"
  /\ samplesProcessed >= 2
  /\ clock = Due(samplesProcessed - 1)
  /\ clock < Due(samplesProcessed)

\* C10: the step of StartReceiver in which CheckConnectionAllowed returns
\* false returns 1 and leaves the receiver in ERROR_STATE and inactive; it
\* creates no WebSocket client, leaves the receiver's client pointer alone
\* and neither creates nor registers a reconnection thread.
C10_RejectedStartAborts ==
  [][(/\ hostPc.op = "StartReceiverHttp" /\ hostPc' # hostPc
      /\ ~startReturn'[hostPc.i].allowed)
     => LET i == hostPc.i
        IN /\ startReturn'[i].result = 1
           /\ receivers'[i].state = "ERROR_STATE"
           /\ ~receivers'[i].active
           /\ socks' = socks /\ nextSock' = nextSock
           /\ receivers'[i].wsClient = receivers[i].wsClient
           /\ reconn' = reconn /\ nextThread' = nextThread
           /\ receivers'[i].reconnectThread = receivers[i].reconnectThread
           /\ receivers'[i].needsReconnect = receivers[i].needsReconnect]_vars

\* a start of a receiver has been rejected after a reconnection thread was
\* created in an earlier run
C10_Witness ==
  \E i \in Rx :
    /\ startReturn[i] = [allowed |-> FALSE, result |-> 1]
    /\ receivers[i].state = "ERROR_STATE"
    /\ ~receivers[i].active
    /\ receivers[i].wsClient = NULL
    /\ nextThread > 1

\* clients that have been created
Created == {s \in SockId : socks[s].st # "unused"}

\* C11: every WebSocket client was created after an admission request that
\* the server allowed, the user_session_id of its URL is the UUID sent in
\* that request, and no two clients were created on the same UUID.
C11_UrlCarriesAdmittedUuid ==
  /\ \A s \in Created :
        /\ socks[s].posted \in admitted
        /\ socks[s].url.user_session_id = socks[s].posted
  /\ \A s, u \in Created : s # u => socks[s].posted # socks[u].posted

\* receiver i is active and the server has closed its WebSocket
Lost(i) ==
  /\ receivers[i].active
  /\ receivers[i].wsClient # NULL
  /\ socks[receivers[i].wsClient].st = "closed"

\* receiver i is Connected with a live socket
Recovered(i) ==
  /\ receivers[i].state = "CONNECTED"
  /\ receivers[i].wsClient # NULL
  /\ socks[receivers[i].wsClient].st = "open"

\* a reconnection thread cannot go on within the UUIDs and clients of the run
Starved ==
  \E t \in ThreadId :
     \/ reconn[t].pc = "sleep" /\ nextUuid > uuidLimit
     \/ reconn[t].pc \in {"http", "dispose"} /\ nextSock > MaxSocks

\* C12: whenever the server has closed the WebSocket of an active receiver,
\* eventually the receiver is Connected again with a live socket or it is no
\* longer active (as long as the run has UUIDs and clients left for the
\* reconnection thread).
C12_ReconnectsUntilConnected ==
  \A i \in Rx : Lost(i) ~> (Recovered(i) \/ ~receivers[i].active \/ Starved)

\* C13: a reconnection thread that is at the head of its loop or in
\* Sleep(retryDelay) while its receiver is stopped (inactive, needsReconnect
\* false) does not go on to an admission request.
C13_StoppedTaskExits ==
  [][\A t \in ThreadId :
       (/\ reconn[t].pc \in {"check", "sleep"}
        /\ ~receivers[reconn[t].rx].active
        /\ ~receivers[reconn[t].rx].needsReconnect)
       => reconn'[t].pc # "http"]_vars

\* StopRx has returned and no StartRx followed
AfterStop == gStopFlag /\ hostPc = Idle

\* reconnection threads of receiver i that have not ended
AliveThreads(i) ==
  {t \in ThreadId : t < nextThread /\ reconn[t].rx = i /\ reconn[t].pc # "done"}

\* C14: from the return of the stop until the next start, a receiver that
\* was started successfully is Disconnected and inactive, has no WebSocket
\* client and no reconnection thread alive.
C14_StartStopLeavesDisconnected ==
  \A i \in Rx :
     (AfterStop /\ startReturn[i].result = 0)
     => /\ receivers[i].state = "DISCONNECTED"
        /\ ~receivers[i].active
        /\ receivers[i].wsClient = NULL
        /\ AliveThreads(i) = {}

\* the callback of client s handles an event that has become stale
StaleHandling(s) ==
  /\ inflight[s] # NoCallback
  /\ inflight'[s] = NoCallback
  /\ receivers[socks[s].rx].generation # socks[s].gen

\* C15: the handling of an event of a client whose captured generation
\* differs from the receiver's generation leaves the receiver record, the
\* ring and the reconnection threads as they are.
C15_StaleEventIgnored ==
  [][\A s \in SockId :
       StaleHandling(s)
       => /\ receivers' = receivers
          /\ ringBuffer' = ringBuffer
          /\ samplesReceived' = samplesReceived
          /\ reconn' = reconn]_vars

\* clients created for receiver i
ClientsOf(i) == {u \in Created : socks[u].rx = i}

\* C16: the generation of a receiver never decreases, and a client created
\* for a receiver captures a generation greater than the one captured by
\* every client created for that receiver before.
C16_GenerationGrows ==
  [][/\ \A i \in Rx : receivers'[i].generation >= receivers[i].generation
     /\ \A s \in SockId :
          (socks[s].st = "unused" /\ socks'[s].st # "unused")
          => \A u \in ClientsOf(socks'[s].rx) :
                socks[u].gen < socks'[s].gen]_vars

\* generations over which the decoded samples of block b of receiver i
\* were received (silence has none)
BlockGens(i, b) ==
  {rxGen[i][b[p]] : p \in {q \in 1..Len(b) : b[q] # Zero}}

\* C17: the block of a receiver handed to the callback holds decoded
\* samples received over one generation only.
C17_BlockOfOneGeneration ==
  InCallback =>
    \A i \in gRxMask : Cardinality(BlockGens(i, completed[i])) <= 1

\* this step is the call SetRxFrequency(f, i)
Called(i, f) ==
  /\ tuneMsg'.seq # tuneMsg.seq
  /\ tuneMsg'.rx = i /\ tuneMsg'.frequency = f

\* C18: a call of SetRxFrequency(f, i) on a Connected receiver that returns
\* with the tune sent has sent the one message {tune, f} and stored f; the
\* rest of the receiver record (state, session id, generation, client), the
\* clients and the UUID and client counters are as before.
C18_TuneSentNoReconnect ==
  [][\A i \in Rx, f \in Freqs :
       (/\ Called(i, f)
        /\ receivers[i].active
        /\ receivers[i].state = "CONNECTED"
        /\ receivers[i].wsClient # NULL
        /\ hostPc' = Idle)
       => /\ tuneMsg'.sent = <<[type |-> "tune", frequency |-> f]>>
          /\ receivers' = [receivers EXCEPT ![i].frequency = f]
          /\ socks' = socks
          /\ nextSock' = nextSock /\ nextUuid' = nextUuid]_vars

\* a tune to the other frequency has been sent on a Connected receiver
C18_Witness ==
  /\ tuneMsg # NoCall
  /\ Len(tuneMsg.sent) = 1
  /\ tuneMsg.frequency = OtherFreq
  /\ receivers[tuneMsg.rx].state = "CONNECTED"
  /\ receivers[tuneMsg.rx].frequency = OtherFreq

\* the reconnect of a SetFrequency call whose send failed is under way
TuneReconnecting ==
  hostPc.op \in {"SetFrequencyHttp", "ConnectWait"}
  /\ hostPc.caller = "SetFrequency"

\* C19: a call of SetRxFrequency(f, i) whose send fails deletes the current
\* client; when the call returns, a client made on the call's admission
\* with f in its URL is the receiver's client and the stored frequency is
\* f, whether the connection was made or not.
C19_FailedTuneReconnectsWithF ==
  [][/\ \A i \in Rx, f \in Freqs :
          (Called(i, f) /\ hostPc' # Idle)
          => /\ socks'[receivers[i].wsClient].st = "deleted"
             /\ receivers'[i].wsClient = NULL
     /\ (TuneReconnecting /\ hostPc' = Idle)
        => LET rcv == receivers'[hostPc.i] IN
           /\ rcv.frequency = hostPc.f
           /\ rcv.wsClient # NULL
           /\ socks'[rcv.wsClient].url.frequency = hostPc.f
           /\ socks'[rcv.wsClient].posted = hostPc.uuid]_vars

\* C20: a call of SetRxFrequency(f, i) on an inactive receiver stores f as
\* the frequency of the receiver and does nothing else: no tune message, no
\* admission request, no client, state and generation as before.
C20_InactiveStoresOnly ==
  [][\A i \in Rx, f \in Freqs :
       (Called(i, f) /\ ~receivers[i].active)
       => /\ receivers' = [receivers EXCEPT ![i].frequency = f]
          /\ tuneMsg'.sent = <<>>
          /\ socks' = socks
          /\ nextSock' = nextSock /\ nextUuid' = nextUuid
          /\ hostPc' = Idle]_vars

\* C20 as the code has it: the call on an inactive receiver is ignored, the
\* receiver record keeps its frequency; no tune message, no admission
\* request, no client, state and generation as before.
C20_InactiveIgnored ==
  [][\A i \in Rx, f \in Freqs :
       (Called(i, f) /\ ~receivers[i].active)
       => /\ receivers' = receivers
          /\ tuneMsg'.sent = <<>>
          /\ socks' = socks
          /\ nextSock' = nextSock /\ nextUuid' = nextUuid
          /\ hostPc' = Idle]_vars

\* the last call was made on an inactive receiver with another frequency
\* than the stored one
C20_Witness ==
  /\ tuneMsg # NoCall
  /\ hostPc = Idle
  /\ ~receivers[tuneMsg.rx].active
  /\ receivers[tuneMsg.rx].frequency # tuneMsg.frequency
  /\ tuneMsg.sent = <<>>

\* ------------------------------------------------------------- keepalive
\* HANDLE ghKeepalive = NULL: the handle is never assigned, no CreateThread
\* names KeepaliveThread
ghKeepalive == NULL

\* SendKeepalive(receiverID) of every active receiver: {"type":"ping"} goes
\* out on a socket whose receiver is CONNECTED
SendKeepalive(sk, rcv) ==
  [s \in SockId |->
     IF \E i \in Rx : /\ rcv[i].active
                      /\ rcv[i].wsClient = s
                      /\ rcv[i].state = "CONNECTED"
     THEN [sk[s] EXCEPT !.pings = @ + 1]
     ELSE sk[s]]

\* KeepaliveThread: one pass of its loop after Sleep(30000); the thread does
\* not exist, so no behaviour takes this step
KeepaliveThread ==
  /\ ghKeepalive # NULL
  /\ ~gStopFlag
  /\ socks' = SendKeepalive(socks, receivers)
  /\ UNCHANGED <<asmVars, sdrVars, ringBuffer, samplesReceived, nextSock,
                 nextUuid, consVars, hostPc, clock, histVars, startReturn,
                 thrVars, auxVars>>

\* ------------------------------------- calls made on the UberSDR object
\* if (receiverID < 0 || receiverID >= MAX_RX_COUNT)
BadId(i) == i < 0 \/ i >= MaxRx

Rejected_stopzero(call, i) ==
  IF call = "SetRxFrequency"
  THEN [call |-> call, id |-> i, result |-> 0,
        log |-> "SetRxFrequency: Invalid receiver ID"]
  ELSE [call |-> call, id |-> i,
        result |-> IF call = "StopReceiver" THEN 0 ELSE 1, log |-> ""]

\* what a call with an id out of range gives back: StartReceiver,
\* StopReceiver and SetFrequency return 1; SetRxFrequency returns nothing
\* (result 0 stands for no value) and writes a line to the log
Rejected(call, i) ==
  IF call = "SetRxFrequency"
  THEN [call |-> call, id |-> i, result |-> 0,
        log |-> "SetRxFrequency: Invalid receiver ID"]
  ELSE [call |-> call, id |-> i, result |-> 1, log |-> ""]

\* the early return of a call with an id out of range
Reject(call, i) ==
  /\ report' = Rejected(call, i)
  /\ UNCHANGED <<asmVars, sdrVars, ringBuffer, samplesReceived, sockVars,
                 consVars, hostPc, clock, histVars, startReturn, thrVars,
                 uuidLimit, threadLimit, admitted, inflight, tuneMsg, rxGen, lastOp>>

\* StartReceiver(receiverID, 14074000, mode) called on the object; with an
\* id in range, once StartRx has set the sample rate the ring is sized by
StartReceiverCall(i, mode) ==
  /\ hostPc.op = "idle"
  /\ IF BadId(i)
     THEN Reject("StartReceiver", i)
     ELSE /\ gSetRecvCount > 0
          /\ hostPc' = [op |-> "StartReceiver", i |-> i, caller |-> "api",
                        uuid |-> NULL, mode |-> mode]
          /\ UNCHANGED <<asmVars, sdrVars, ringBuffer, samplesReceived,
                         sockVars, consVars, clock, histVars, startReturn,
                         thrVars, auxVars>>

\* StopReceiver(receiverID) with an id out of range
StopReceiverBadId(i) ==
  /\ hostPc.op = "idle"
  /\ BadId(i)
  /\ Reject("StopReceiver", i)

\* SetFrequency(receiverID, frequency) with an id out of range
SetFrequencyBadId(i) ==
  /\ hostPc.op = "idle"
  /\ BadId(i)
  /\ Reject("SetFrequency", i)

\* SetRxFrequency(Frequency, Receiver) with an id out of range
SetRxFrequencyBadId(i) ==
  /\ hostPc.op = "idle"
  /\ BadId(i)
  /\ Reject("SetRxFrequency", i)

\* ids a caller may pass: the valid ones, one below and one above
CallIds == (0 - 1)..MaxRx

NextApi ==
  \/ StartRx(1)
  \/ \E i \in CallIds, mode \in Modes : StartReceiverCall(i, mode)
  \/ StartReceiverBegin
  \/ \E allowed \in BOOLEAN : StartReceiverHttp(allowed)
  \/ StartReceiverConnected
  \/ \E s \in SockId : SockOpen(s)
  \/ \E i \in CallIds : StopReceiverBadId(i)
  \/ \E i \in CallIds : SetFrequencyBadId(i)
  \/ \E i \in CallIds : SetRxFrequencyBadId(i)

SpecApi == Init /\ [][NextApi]_vars

\* ------------------------------------------- a ring exercised by itself
\* values written: Zero is what a failed read leaves, so samples are 1, 2, ..
SampleVals == 1..MaxSamples

\* what a FIFO of capacity - 1 places holds after the call
FifoPut(fifo, cap, s) == IF Len(fifo) < cap - 1 THEN Append(fifo, s) ELSE fifo

FifoGet(fifo) == IF fifo = <<>> THEN fifo ELSE Tail(fifo)

\* init(capacityInSamples) on ring i
RbInit(i, capacityInSamples) ==
  /\ ringBuffer' = [ringBuffer EXCEPT ![i] = RingInit(@, capacityInSamples)]
  /\ lastOp' = [op |-> "init", ok |-> TRUE, s |-> Zero, fifo |-> <<>>]
  /\ UNCHANGED <<asmVars, sdrVars, samplesReceived, sockVars, consVars,
                 hostPc, clock, histVars, startReturn, thrVars,
                 report, uuidLimit, threadLimit, admitted, inflight, tuneMsg, rxGen>>

\* write(I, Q) on ring i, once it has a capacity
RbWrite(i, s) ==
  LET rb == ringBuffer[i]
      r == RingWrite(rb, s)
  IN /\ rb.capacity > 0
     /\ r.ok \/ rb.overrunCount < MaxFaults
     /\ ringBuffer' = [ringBuffer EXCEPT ![i] = r.rb]
     /\ lastOp' = [op |-> "write", ok |-> r.ok, s |-> s,
                   fifo |-> FifoPut(lastOp.fifo, rb.capacity, s)]
     /\ UNCHANGED <<asmVars, sdrVars, samplesReceived, sockVars, consVars,
                    hostPc, clock, histVars, startReturn, thrVars,
                    report, uuidLimit, threadLimit, admitted, inflight, tuneMsg, rxGen>>

\* read(I, Q) on ring i, once it has a capacity
RbRead(i) ==
  LET rb == ringBuffer[i]
      r == RingRead(rb)
  IN /\ rb.capacity > 0
     /\ r.ok \/ rb.underrunCount < MaxFaults
     /\ ringBuffer' = [ringBuffer EXCEPT ![i] = r.rb]
     /\ lastOp' = [op |-> "read", ok |-> r.ok, s |-> r.s,
                   fifo |-> FifoGet(lastOp.fifo)]
     /\ UNCHANGED <<asmVars, sdrVars, samplesReceived, sockVars, consVars,
                    hostPc, clock, histVars, startReturn, thrVars,
                    report, uuidLimit, threadLimit, admitted, inflight, tuneMsg, rxGen>>

NextRb ==
  \/ \E c \in 1..MaxCapacity : RbInit(0, c)
  \/ \E s \in SampleVals : RbWrite(0, s)
  \/ RbRead(0)

SpecRb == Init /\ [][NextRb]_vars

\* 2 to the power n
RECURSIVE Pow2(_)
Pow2(n) == IF n = 0 THEN 1 ELSE 2 * Pow2(n - 1)

\* the smaller of a and b
Min(a, b) == IF a < b THEN a ELSE b

\* C21: the delay a reconnection thread sleeps before its attempt k is
\* min(2^(k-1), 60) seconds: 1 s before the first attempt, doubled after
\* every failed admission or connect, never more than 60 s.
C21_BackoffDelay ==
  \A t \in ThreadId :
     reconn[t].pc = "sleep"
     => reconn[t].retryDelay
          = Min(Pow2(reconn[t].attempt - 1) * 1000, 60 * 1000)

\* a thread sleeps before its seventh attempt, after failures of both kinds
C21_Witness ==
  \E t \in ThreadId :
     /\ reconn[t].pc = "sleep"
     /\ reconn[t].attempt = 7
     /\ reconn[t].retryDelay = 60 * 1000
     /\ nextSock > 2

\* C22: after any interleaving of init, write and read on a ring of capacity
\* C, available lies in 0..C-1 and available + space + 1 = C.
C22_RingBounds ==
  \A i \in Rx :
     LET rb == ringBuffer[i]
     IN rb.capacity > 0
        => /\ 0 <= available(rb)
           /\ available(rb) <= rb.capacity - 1
           /\ available(rb) + space(rb) + 1 = rb.capacity

\* a full ring whose write position has wrapped behind its read position
C22_Witness ==
  LET rb == ringBuffer[0]
  IN /\ rb.capacity >= 3
     /\ rb.writePos < rb.readPos
     /\ available(rb) = rb.capacity - 1
     /\ space(rb) = 0
     /\ lastOp.op = "write"

\* C23: a write succeeds exactly when space was at least 1; otherwise the
\* sample is dropped, the overrun counter grows by exactly one and writePos,
\* readPos, available and the stored samples stay as they were.
C23_WriteOrOverrun ==
  [][(lastOp'.op = "write" /\ ringBuffer'[0] # ringBuffer[0])
     => LET rb == ringBuffer[0]
            nb == ringBuffer'[0]
        IN /\ lastOp'.ok <=> space(rb) >= 1
           /\ lastOp'.ok
              => /\ nb.buffer[rb.writePos] = lastOp'.s
                 /\ available(nb) = available(rb) + 1
                 /\ nb.overrunCount = rb.overrunCount
           /\ ~lastOp'.ok
              => /\ nb.overrunCount = rb.overrunCount + 1
                 /\ nb.writePos = rb.writePos
                 /\ nb.readPos = rb.readPos
                 /\ available(nb) = available(rb)
                 /\ nb.buffer = rb.buffer]_vars

\* a write refused by a full ring that had wrapped
C23_Witness ==
  LET rb == ringBuffer[0]
  IN /\ lastOp.op = "write"
     /\ ~lastOp.ok
     /\ rb.overrunCount >= 1
     /\ rb.capacity >= 2
     /\ rb.readPos > 0
     /\ rb.buffer[rb.writePos] # lastOp.s

\* C24: a read succeeds exactly when available was at least 1 and then
\* returns the oldest unread sample and lowers available by one; otherwise it
\* fails at once, the underrun counter grows by exactly one and readPos and
\* writePos stay as they were.
C24_ReadOrUnderrun ==
  [][(lastOp'.op = "read" /\ ringBuffer'[0] # ringBuffer[0])
     => LET rb == ringBuffer[0]
            nb == ringBuffer'[0]
        IN /\ lastOp'.ok <=> available(rb) >= 1
           /\ lastOp'.ok
              => /\ lastOp.fifo # <<>>
                 /\ lastOp'.s = Head(lastOp.fifo)
                 /\ available(nb) = available(rb) - 1
                 /\ nb.underrunCount = rb.underrunCount
           /\ ~lastOp'.ok
              => /\ nb.underrunCount = rb.underrunCount + 1
                 /\ nb.readPos = rb.readPos
                 /\ nb.writePos = rb.writePos]_vars

\* a read that returned the older of two different samples, and an underrun
C24_Witness ==
  LET rb == ringBuffer[0]
  IN /\ lastOp.op = "read"
     /\ lastOp.ok
     /\ lastOp.fifo # <<>>
     /\ Head(lastOp.fifo) # lastOp.s
     /\ rb.underrunCount >= 1
     /\ rb.readPos < rb.writePos

\* another receiver is active with a mode (sample rate) different from mode
ModeMismatch(rcv, i, mode) ==
  \E j \in Rx \ {i} : rcv[j].active /\ rcv[j].mode # mode

\* C25: StartReceiver(i, f, m) called while another receiver is active with a
\* different sample rate fails with an error and changes no receiver, ring or
\* barrier state.
C25_MismatchRefused ==
  [][(/\ hostPc.op = "StartReceiver"
      /\ hostPc.caller = "api"
      /\ ModeMismatch(receivers, hostPc.i, hostPc.mode))
     => /\ receivers' = receivers
        /\ ringBuffer' = ringBuffer
        /\ asmVars' = asmVars
        /\ hostPc' = Idle
        /\ startReturn'[hostPc.i].result = 1]_vars

\* C26: StartReceiver, StopReceiver and the frequency calls, given a receiver
\* id outside 0..N-1, report an error before they return (the value 1, or for
\* SetRxFrequency, which returns nothing, the log line) and change no state of
\* any receiver.
C26_BadIdRejected ==
  [][report' # report
     => /\ BadId(report'.id)
        /\ report'.result = 1 \/ report'.log # ""
        /\ receivers' = receivers
        /\ ringBuffer' = ringBuffer
        /\ samplesReceived' = samplesReceived
        /\ activeReceivers' = activeReceivers
        /\ socks' = socks
        /\ hostPc' = hostPc]_vars

\* an id above the range was rejected while a receiver was connected
C26_Witness ==
  /\ report.call = "StopReceiver"
  /\ report.id = MaxRx
  /\ report.result = 1
  /\ receivers[0].active
  /\ receivers[0].state = "CONNECTED"

\* the engine runs and receiver i is active on an open connection
Pingable(i) ==
  /\ gSetRecvCount > 0
  /\ ~gStopFlag
  /\ receivers[i].active
  /\ receivers[i].state = "CONNECTED"
  /\ receivers[i].wsClient # NULL

\* C27: while the engine is running, a {"type":"ping"} keepalive is sent
\* every 30 s on the connection of each active receiver: a receiver that
\* stays active on its connection sees a ping go out on it.
C27_PingEvery30s ==
  \A i \in Rx :
     [](Pingable(i)
        => <>(\/ ~Pingable(i)
              \/ socks[receivers[i].wsClient].pings > 0))

\* the thread is in the first pass of its retry loop and its receiver is
\* still active
FirstAttempt(t) ==
  /\ receivers[reconn[t].rx].active
  /\ \/ reconn[t].pc = "check" /\ reconn[t].attempt = 0
     \/ reconn[t].pc \in {"sleep", "http", "dispose", "wait", "success"}
        /\ reconn[t].attempt = 1

\* the steps of a first pass that are the same in both readings: the state
\* is Connecting once the new client is made, Connected once it has opened,
\* and the generation is one above the generation at the close from the
\* accepted admission on
CycleEnd(t) ==
  LET r == receivers[reconn[t].rx]
      pc == reconn[t].pc
  IN /\ pc \in {"check", "sleep", "http"}
        => r.generation = reconn[t].gen0
     /\ pc \in {"dispose", "wait", "success"}
        => r.generation = reconn[t].gen0 + 1
     /\ pc \in {"wait", "success"} /\ socks[r.wsClient].st = "connecting"
        => r.state = "CONNECTING"
     /\ pc \in {"wait", "success"} /\ socks[r.wsClient].st = "open"
        => r.state = "CONNECTED"

C29_NoSecondToggle ==
  [][(BarrierUpdate /\ receiverID \in gRxFilled)
     => LET i == receiverID
        IN /\ i \in gRxFilled'
           /\ gBucket'[i] = gBucket[i]
           /\ gOutPtr'[i] = gOutPtr[i]
           /\ gInPtr'[i].buf = gInPtr[i].buf]_vars

\* receiver 0 has filled a second block while its bit was set: two blocks
\* of ticks, one toggle of its bucket, no callback
C29_Witness ==
  /\ gRxFilled = {0}
  /\ gBucket[0] = 1
  /\ gOutPtr[0] = 1
  /\ samplesProcessed >= 2 * BlockLen
  /\ gDataSamples[0] = 0
  /\ asmPc # "barrier"
  /\ totalCallbacks = 0

\* the steps made between EnterCriticalSection(&gDataCriticalSection) and
\* LeaveCriticalSection: the block switch with the callback, the return of
\* the callback, and the initialisation of the masks in StartRx
HoldsLock ==
  \/ BarrierUpdate
  \/ CallbackReturn
  \/ \E n \in 0..MaxRx : StartRx(n)

\* C30: gRxMask, gRxFilled, gInPtr, gOutPtr and gDataSamples are read and
\* written only while gDataCriticalSection is held, so the initialisation in
\* StartRx and an update of the consumer never interleave inside one update.
C30_AccessUnderLock ==
  [][(\/ gRxMask' # gRxMask
      \/ gRxFilled' # gRxFilled
      \/ gInPtr' # gInPtr
      \/ gOutPtr' # gOutPtr
      \/ gDataSamples' # gDataSamples)
     => HoldsLock]_vars

\* the steps whose accesses to the receiver record are all made between
\* EnterCriticalSection(&receivers[i].lock) and LeaveCriticalSection: the
\* socket callbacks, the reconnection thread, the UUID store of
\* CheckConnectionAllowed and the flags of StopReceiver
HoldsReceiverLock ==
  \/ \E s \in SockId : SockOpen(s) \/ SockError(s) \/ SockMessage(s)
  \/ \E s \in SockId, created \in BOOLEAN : SockClose(s, created)
  \/ Reconnection
  \/ StartReceiverBegin
  \/ StopReceiver
  \/ StopReceiverWaited

\* a field the receiver lock is there for has a new value
GuardedFieldWritten(i) ==
  \/ receivers'[i].state # receivers[i].state
  \/ receivers'[i].generation # receivers[i].generation
  \/ receivers'[i].needsReconnect # receivers[i].needsReconnect
  \/ receivers'[i].reconnectThread # receivers[i].reconnectThread
  \/ receivers'[i].sessionId # receivers[i].sessionId
  \/ receivers'[i].frequency # receivers[i].frequency

\* C31: state, generation, needsReconnect, reconnectThread, sessionId and
\* frequency of a receiver are read and written only while the lock of that
\* receiver is held.
C31_FieldsUnderLock ==
  [][(\E i \in Rx : GuardedFieldWritten(i)) => HoldsReceiverLock]_vars

MaxPayload == 2

\* Longest server stream (in frames) put on the wire.
MaxFrames == 2

ByteMax == 255
FinBit == 128
Len16 == 126
Len64 == 127
Limit16 == 65536
MaxFrameLen == 1048576
BufSize == 4096

CONTINUATION == 0
TEXT == 1
BINARY == 2
CLOSE == 8
PING == 9
PONG == 10
Opcodes == {CONTINUATION, TEXT, BINARY, CLOSE, PING, PONG}

RECURSIVE Bits(_, _, _, _)
\* Bitwise operation on the n low bits of a and b.
Bits(op, a, b, n) ==
  IF n = 0 THEN 0
  ELSE LET x == a % 2
           y == b % 2
           z == IF op = "xor" THEN (x + y) % 2
                ELSE IF op = "or" THEN (IF x + y > 0 THEN 1 ELSE 0)
                ELSE x * y
       IN z + 2 * Bits(op, a \div 2, b \div 2, n - 1)

Xor8(a, b) == Bits("xor", a, b, 8)
Or8(a, b) == Bits("or", a, b, 8)
And8(a, b) == Bits("and", a, b, 8)

\* length >> k for a length below 2^31
Shr(x, k) == IF k >= 31 THEN 0 ELSE x \div Pow2(k)

RECURSIVE ShiftIn(_, _)
\* acc = (acc << 8) | b over the bytes, first byte most significant
ShiftIn(acc, bytes) ==
  IF bytes = <<>> THEN acc
  ELSE ShiftIn(acc * (ByteMax + 1) + Head(bytes), Tail(bytes))

\* data[i] ^= mask[i % 4]  (i counted from 0 in the code)
applyMask(data, mask) ==
  [i \in 1..Len(data) |-> Xor8(data[i], mask[((i - 1) % 4) + 1])]

\* WebSocketClient::sendFrame and ws_send_frame: the bytes handed to send().
sendFrame(opcode, data, maskingKey) ==
  LET length == Len(data)
      b0 == Or8(FinBit, opcode)
      hdr == IF length < Len16
             THEN <<b0, Or8(FinBit, length % (ByteMax + 1))>>
             ELSE IF length < Limit16
             THEN <<b0, Or8(FinBit, Len16), Shr(length, 8) % (ByteMax + 1),
                    And8(length % (ByteMax + 1), ByteMax)>>
             ELSE <<b0, Or8(FinBit, Len64)>>
                  \o [k \in 1..8 |-> And8(Shr(length, (8 - k) * 8) % (ByteMax + 1), ByteMax)]
  IN hdr \o maskingKey \o applyMask(data, maskingKey)

NoFrame == [ok |-> FALSE, fin |-> FALSE, opcode |-> CONTINUATION,
            masked |-> FALSE, payload |-> <<>>]

\* WebSocketClient::receiveFrame on the bytes the socket still delivers; a
\* recv that comes back short makes it return false.
receiveFrame(wire) ==
  IF Len(wire) < 2 THEN NoFrame
  ELSE
    LET len7 == And8(wire[2], Len64)
        ext == IF len7 = Len16 THEN 2 ELSE IF len7 = Len64 THEN 8 ELSE 0
        masked == And8(wire[2], FinBit) # 0
        hdr == 2 + ext + (IF masked THEN 4 ELSE 0)
    IN IF Len(wire) < hdr THEN NoFrame
       ELSE
         LET payloadLength == IF ext = 0 THEN len7
                              ELSE ShiftIn(0, SubSeq(wire, 3, 2 + ext))
             raw == SubSeq(wire, hdr + 1, hdr + payloadLength)
         IN IF Len(wire) < hdr + payloadLength THEN NoFrame
            ELSE [ok |-> TRUE,
                  fin |-> And8(wire[1], FinBit) # 0,
                  opcode |-> And8(wire[1], 15),
                  masked |-> masked,
                  payload |-> IF masked
                              THEN applyMask(raw, SubSeq(wire, 3 + ext, hdr))
                              ELSE raw]

\* Locals of websocket_loop that survive one recv, with three history
\* fields: done lists the frames completed so far, bad records that a
\* malformed frame was met, late that bytes were parsed after it.
ParserInit ==
  [in_frame |-> FALSE, frame_opcode |-> CONTINUATION, frame_payload_len |-> 0,
   frame_pos |-> 0, frame_buffer |-> <<>>, connected_ |-> TRUE,
   done |-> <<>>, pongs |-> 0, bad |-> FALSE, late |-> FALSE]

\* The dispatch on frame_opcode once frame_pos has reached the length.
FrameComplete(st) ==
  [st EXCEPT !.done = Append(@, [opcode |-> st.frame_opcode,
                                 payload |-> st.frame_buffer]),
             !.connected_ = IF st.frame_opcode = CLOSE THEN FALSE ELSE @,
             !.pongs = IF st.frame_opcode = PING THEN @ + 1 ELSE @,
             !.bad = @ \/ st.frame_opcode \notin Opcodes,
             !.in_frame = FALSE,
             !.frame_buffer = <<>>]

RECURSIVE ParseFrames(_, _, _)
\* The for loop of websocket_loop over one received buffer, i counted from 0.
ParseFrames(st, buf, i) ==
  LET n == Len(buf) IN
  IF i >= n THEN st
  ELSE IF ~st.in_frame
  THEN
    LET s0 == [st EXCEPT !.late = @ \/ st.bad] IN
    IF i + 1 >= n THEN [s0 EXCEPT !.bad = TRUE]
    ELSE
      LET byte0 == buf[i + 1]
          byte1 == buf[i + 2]
          opcode == And8(byte0, 15)
          masked == And8(byte1, FinBit) # 0
          len7 == And8(byte1, Len64)
          ext == IF len7 = Len16 THEN 2 ELSE IF len7 = Len64 THEN 8 ELSE 0
          s1 == [s0 EXCEPT !.frame_opcode = opcode, !.frame_payload_len = len7]
      IN IF i + 2 + ext > n THEN [s1 EXCEPT !.bad = TRUE]
         ELSE
           LET len == IF ext = 0 THEN len7
                      ELSE ShiftIn(0, SubSeq(buf, i + 3, i + 2 + ext))
               s2 == [s1 EXCEPT !.frame_payload_len = len]
               j == i + 2 + ext + (IF masked THEN 4 ELSE 0)
           IN IF j > n THEN [s2 EXCEPT !.bad = TRUE]
              ELSE IF len > MaxFrameLen THEN [s2 EXCEPT !.bad = TRUE]
              ELSE ParseFrames([s2 EXCEPT !.frame_pos = 0,
                                          !.frame_buffer = <<>>,
                                          !.in_frame = TRUE], buf, j)
  ELSE
    LET bytes_to_copy == Min(n - i, st.frame_payload_len - st.frame_pos)
        s1 == [st EXCEPT !.frame_buffer = @ \o SubSeq(buf, i + 1, i + bytes_to_copy),
                         !.frame_pos = @ + bytes_to_copy]
    IN IF s1.frame_pos >= s1.frame_payload_len
       THEN ParseFrames(FrameComplete(s1), buf, i + bytes_to_copy)
       ELSE ParseFrames(s1, buf, i + bytes_to_copy)

\* Payload bytes and masking keys tried: rng() & 0xFF can give any byte.
ByteSamples == {0, 1, ByteMax - 1, ByteMax}
Keys == {<<0, 0, 0, 0>>, <<1, 2, 4, 8>>, <<ByteMax, 0, 170, 85>>}

RECURSIVE SeqsUpTo(_, _)
\* All sequences over S of length at most n.
SeqsUpTo(S, n) ==
  IF n = 0 THEN {<<>>}
  ELSE LET shorter == SeqsUpTo(S, n - 1)
       IN shorter \cup {Append(q, x) : q \in shorter, x \in S}

\* A payload of n bytes that differ from one position to the next.
Ramp(n) == <<>> \o [i \in 1..n |-> (i * 7) % (ByteMax + 1)]

\* Payload sizes around the places where the length form changes.
LongLens == {5, Len16 - 1, Len16, Limit16 - 1, Limit16}

\* What a server may put on the wire: frames without mask, among them one
\* with a reserved opcode, one masked, and one announcing more than 1 MiB.
ServerFrames ==
  { <<FinBit + BINARY, 2, 1, 2>>,
    <<FinBit + PING, 0>>,
    <<FinBit + 3, 1, 7>>,
    <<FinBit + BINARY, Len64, 0, 0, 0, 0, 0, 16, 0, 1>>,
    <<FinBit + BINARY, Len16, 0, 1, 9>>,
    <<FinBit + BINARY, FinBit + 1, 1, 2, 4, 8, 6>> }

RECURSIVE Streams(_)
Streams(n) ==
  IF n = 0 THEN {<<>>}
  ELSE LET shorter == Streams(n - 1)
       IN shorter \cup {q \o f : q \in shorter, f \in ServerFrames}

FrameVars == <<asmVars, sdrVars, ringBuffer, samplesReceived, sockVars, consVars,
               hostPc, clock, histVars, startReturn, thrVars, uuidLimit, threadLimit,
               admitted, inflight, tuneMsg, rxGen, report>>

\* The client emits one frame (sendText, sendBinary, sendPing, ws_send_json).
SendFrame(opcode, data, maskingKey) ==
  /\ lastOp = NoOp
  /\ LET frame == sendFrame(opcode, data, maskingKey)
     IN lastOp' = [op |-> "sendFrame", opcode |-> opcode, data |-> data,
                   frame |-> frame, wire |-> frame,
                   st |-> ParserInit, got |-> NoFrame]
  /\ UNCHANGED FrameVars

\* The server writes a stream of frames to the socket.
ServerSend(stream) ==
  /\ lastOp = NoOp
  /\ stream # <<>>
  /\ lastOp' = [op |-> "serverSend", opcode |-> CONTINUATION, data |-> <<>>,
                frame |-> <<>>, wire |-> stream,
                st |-> ParserInit, got |-> NoFrame]
  /\ UNCHANGED FrameVars

\* WebSocketClient::receiveFrame reads the first frame on the wire.
ReceiveFrame ==
  /\ lastOp.op \in {"sendFrame", "serverSend"}
  /\ lastOp' = [lastOp EXCEPT !.op = "receiveFrame",
                              !.got = receiveFrame(lastOp.wire),
                              !.wire = <<>>]
  /\ UNCHANGED FrameVars

\* The sizes recv may return; long frames arrive in full buffers.
RecvSizes(wire) ==
  IF Len(wire) <= 2 * MaxPayload + 10
  THEN 1..Len(wire)
  ELSE {Min(BufSize, Len(wire))}

\* One pass of the while loop of websocket_loop: recv, then the for loop.
WebsocketLoopRecv ==
  /\ lastOp.op \in {"sendFrame", "serverSend", "websocket_loop"}
  /\ lastOp.st.connected_
  /\ lastOp.wire # <<>>
  /\ \E n \in RecvSizes(lastOp.wire) :
        lastOp' = [lastOp EXCEPT
                     !.op = "websocket_loop",
                     !.st = ParseFrames(lastOp.st, SubSeq(lastOp.wire, 1, n), 0),
                     !.wire = SubSeq(lastOp.wire, n + 1, Len(lastOp.wire))]
  /\ UNCHANGED FrameVars

NextFrame ==
  \/ /\ lastOp = NoOp
     /\ \E opcode \in Opcodes, data \in SeqsUpTo(ByteSamples, MaxPayload), k \in Keys :
           SendFrame(opcode, data, k)
  \/ /\ lastOp = NoOp
     /\ \E n \in LongLens : SendFrame(BINARY, Ramp(n), <<1, 2, 4, 8>>)
  \/ /\ lastOp = NoOp
     /\ \E stream \in Streams(MaxFrames) : ServerSend(stream)
  \/ ReceiveFrame
  \/ WebsocketLoopRecv

SpecFrame == Init /\ [][NextFrame]_vars

\* The frame of lastOp as the parser of websocket_loop has it once the wire
\* is drained: a frame without payload stays pending until the next recv.
LoopFrames ==
  lastOp.st.done
  \o (IF lastOp.st.in_frame /\ lastOp.st.frame_payload_len = 0
      THEN <<[opcode |-> lastOp.st.frame_opcode, payload |-> <<>>]>>
      ELSE <<>>)

\* The emitted frame has FIN and MASK set, the length form that fits the
\* payload size, the key in the frame and the payload XOR-ed with that key.
EmittedWellFormed ==
  LET f == lastOp.frame
      n == Len(lastOp.data)
      ext == IF n < 126 THEN 0 ELSE IF n < 65536 THEN 2 ELSE 8
  IN /\ Len(f) = 2 + ext + 4 + n
     /\ f[1] = 128 + lastOp.opcode
     /\ f[2] = 128 + (IF ext = 0 THEN n ELSE IF ext = 2 THEN 126 ELSE 127)
     /\ ext = 2 => f[3] * 256 + f[4] = n
     /\ ext = 8 => /\ \A k \in 3..6 : f[k] = 0
                   /\ ((f[7] * 256 + f[8]) * 256 + f[9]) * 256 + f[10] = n
     /\ \A i \in 1..n :
          f[2 + ext + 4 + i] = Xor8(lastOp.data[i], f[2 + ext + ((i - 1) % 4) + 1])

\* C33 (as stated): every frame the client emits has FIN and MASK set, the
\* 7-bit, 16-bit or 64-bit length form that matches the payload size and a
\* payload XOR-masked with the key carried in the frame, and both parsers
\* (receiveFrame, the parser of websocket_loop) give back the opcode and the
\* payload that were sent.
C33_FrameRoundTrip ==
  /\ lastOp.op = "sendFrame" => EmittedWellFormed
  /\ (lastOp.op = "receiveFrame" /\ lastOp.frame # <<>>)
     => /\ lastOp.got.ok /\ lastOp.got.fin /\ lastOp.got.masked
        /\ lastOp.got.opcode = lastOp.opcode
        /\ lastOp.got.payload = lastOp.data
  /\ (lastOp.op = "websocket_loop" /\ lastOp.frame # <<>> /\ lastOp.wire = <<>>)
     => LoopFrames = <<[opcode |-> lastOp.opcode, payload |-> lastOp.data]>>

\* C33, the part the code keeps: emission, and parsing by receiveFrame.
C33_SimpleWsRoundTrip ==
  /\ lastOp.op = "sendFrame" => EmittedWellFormed
  /\ (lastOp.op = "receiveFrame" /\ lastOp.frame # <<>>)
     => /\ lastOp.got.ok /\ lastOp.got.fin /\ lastOp.got.masked
        /\ lastOp.got.opcode = lastOp.opcode
        /\ lastOp.got.payload = lastOp.data

\* A frame in the 64-bit length form has been emitted and parsed back.
C33_Witness ==
  /\ lastOp.op = "receiveFrame"
  /\ lastOp.frame # <<>>
  /\ Len(lastOp.data) = Limit16
  /\ lastOp.got.ok

\* C34 (as stated): once the parser has met a malformed frame (a payload
\* length above 1 MiB, a header cut short, an opcode that is not defined) the
\* socket is closed, so the receive loop has ended, and no byte after it is
\* parsed as a frame; receiveFrame hands out no frame with an undefined
\* opcode or more than 1 MiB of payload.
C34_MalformedCloses ==
  /\ (lastOp.op = "websocket_loop" /\ lastOp.st.bad)
     => /\ ~lastOp.st.connected_
        /\ ~lastOp.st.late
  /\ (lastOp.op = "receiveFrame" /\ lastOp.got.ok)
     => /\ lastOp.got.opcode \in Opcodes
        /\ Len(lastOp.got.payload) <= MaxFrameLen

\* C35 (as stated): whenever no call of the interface is in progress, the
\* counter activeReceivers equals the number of receivers whose active flag
\* is set, and it lies between 0 and the number of receivers.
C35_ActiveCount ==
  hostPc.op = "idle"
  => /\ activeReceivers = Cardinality({i \in Rx : receivers[i].active})
     /\ activeReceivers >= 0
     /\ activeReceivers <= MaxRx

\* the session lifecycle with room for one reconnection thread more than
\* the other specifications create
InitTasks ==
  Constructed /\ uuidLimit = MaxUuid /\ threadLimit = MaxThreads + 1
  /\ tuneMsg = NotRecorded

SpecTasks == InitTasks /\ [][NextSess]_vars

\* C36 (as stated): at any time at most one reconnection thread of a
\* receiver is alive (created and not yet returned from HandleReconnection).
C36_OneTaskPerReceiver ==
  \A i \in Rx : Cardinality(AliveThreads(i)) <= 1

\* ---------------------------------------------------------------------------
\* UberSDR::SetFrequency at the grain of its reads of wsClient: the test of
\* the pointer and the call through it are two steps of the host thread,
\* taken without the receiver lock, between which a reconnection thread may
\* run.
\* ---------------------------------------------------------------------------

\* if (receivers[receiverID].active && receivers[receiverID].wsClient != nullptr)
SetFrequencyTest(i, f) ==
  /\ hostPc.op = "idle"
  /\ receivers[i].active
  /\ receivers[i].wsClient # NULL
  /\ hostPc' = [op |-> "SetFrequencySend", i |-> i, f |-> f,
                ws |-> receivers[i].wsClient]
  /\ UNCHANGED <<auxVars, asmVars, sdrVars, ringBuffer, samplesReceived,
                 sockVars, consVars, clock, histVars, startReturn, thrVars>>

\* receivers[receiverID].wsClient->send(tuneMsg.str()): the call goes through
\* the pointer as tested or as read again; lastOp records the client called
\* and what had become of it.
SetFrequencySend ==
  /\ hostPc.op = "SetFrequencySend"
  /\ \E ws \in {hostPc.ws, receivers[hostPc.i].wsClient} :
       /\ lastOp' = [op |-> "send", rx |-> hostPc.i, ws |-> ws,
                     st |-> IF ws = NULL THEN "null" ELSE socks[ws].st]
       /\ receivers' = IF ws # NULL /\ socks[ws].st # "deleted"
                       THEN Tuned(receivers, hostPc.i, hostPc.f)
                       ELSE receivers
  /\ hostPc' = Idle
  /\ UNCHANGED <<uuidLimit, threadLimit, admitted, inflight, tuneMsg, rxGen,
                 report, asmVars, activeReceivers, sampleRate, ringBuffer,
                 samplesReceived, sockVars, consVars, clock, histVars,
                 startReturn, thrVars>>

\* one receiver, a server that closes the connection, the reconnection
\* thread and retunes by the host
NextFree ==
  \/ StartRx(1)
  \/ StartReceiverBegin
  \/ \E allowed \in BOOLEAN : StartReceiverHttp(allowed)
  \/ StartReceiverConnected
  \/ \E s \in SockId : SockOpen(s)
  \/ \E s \in SockId : SockClose(s, TRUE)
  \/ Reconnection
  \/ \E f \in Freqs : SetFrequencyTest(0, f)
  \/ SetFrequencySend

SpecFree == Init /\ [][NextFree]_vars

\* C37 (as stated): a call through a receiver's wsClient pointer reaches a
\* client that exists: the pointer is not null and the client has not been
\* deleted by DisconnectWebSocket or by the reconnection thread.
C37_NoUseAfterDelete ==
  lastOp.op = "send" => lastOp.st \notin {"deleted", "null"}

\* ---------------------------------------------------------------------------
\* 'Disconnect old WebSocket properly' of HandleReconnection at the grain of
\* the receiver lock: the thread enters the lock, clears the callback and
\* calls stop(), which returns when the socket thread has ended; the thread
\* holds the lock until then.  pc = "stopping" is the thread inside stop().
\* ---------------------------------------------------------------------------

\* no thread is inside the receiver lock of receiver i
LockFree(i) ==
  \A t \in ThreadId : ~(reconn[t].rx = i /\ reconn[t].pc = "stopping")

\* the old client has been stopped, or there is none
ClientStopped(t) ==
  LET old == receivers[reconn[t].rx].wsClient
  IN IF old = NULL THEN TRUE ELSE socks[old].st = "stopped"

\* EnterCriticalSection; setOnMessageCallback(nullptr); wsClient->stop() ...
ReconnectStopBegin(t) ==
  /\ reconn[t].pc = "dispose"
  /\ ~ClientStopped(t)
  /\ LockFree(reconn[t].rx)
  /\ reconn' = [reconn EXCEPT ![t].pc = "stopping"]
  /\ UNCHANGED <<auxVars, asmVars, sdrVars, ringBuffer, samplesReceived,
                 sockVars, consVars, hostPc, clock, histVars, startReturn,
                 nextThread, ticks>>

\* ... stop() has joined the socket thread; LeaveCriticalSection
ReconnectStopEnd(t) ==
  /\ reconn[t].pc = "stopping"
  /\ LET old == receivers[reconn[t].rx].wsClient
     IN /\ inflight[old] = NoCallback
        /\ socks' = [socks EXCEPT ![old].cb = FALSE, ![old].st = "stopped"]
  /\ reconn' = [reconn EXCEPT ![t].pc = "dispose"]
  /\ UNCHANGED <<auxVars, asmVars, sdrVars, ringBuffer, samplesReceived,
                 nextSock, nextUuid, consVars, hostPc, clock, histVars,
                 startReturn, nextThread, ticks>>

\* the sessions of SpecRace with the callbacks and the reconnection thread
\* competing for the receiver lock
NextLock ==
  \/ HostStart
  \/ HostTune
  \/ \E s \in SockId, ev \in Events :
        LockFree(socks[s].rx) /\ CallbackBegin(s, ev)
  \/ \E s \in SockId, created \in BOOLEAN :
        /\ IF inflight[s].ev = "Message" THEN TRUE ELSE LockFree(socks[s].rx)
        /\ CallbackHandle(s, created)
  \/ \E t \in ThreadId : ReconnectCheck(t)
  \/ \E t \in ThreadId : ReconnectExit(t)
  \/ \E t \in ThreadId : ReconnectPost(t)
  \/ \E t \in ThreadId, allowed \in BOOLEAN : ReconnectHttp(t, allowed)
  \/ \E t \in ThreadId : ReconnectStopBegin(t)
  \/ \E t \in ThreadId : ReconnectStopEnd(t)
  \/ \E t \in ThreadId : ClientStopped(t) /\ ReconnectDispose(t)
  \/ \E t \in ThreadId : ReconnectConnected(t)
  \/ \E t \in ThreadId : ReconnectSuccess(t)

SpecLock == InitAdm /\ [][NextLock]_vars

\* C38 (as stated): no thread waits inside stop() for the socket thread to
\* end while it holds the receiver lock that the callback running on that
\* socket thread has yet to take.
C38_NoLockDeadlock ==
  \A t \in ThreadId :
     reconn[t].pc = "stopping"
     => inflight[receivers[reconn[t].rx].wsClient].ev \in {"none", "Message"}

\* C39 (as stated): while no call of the interface is in progress, a
\* receiver whose active flag is false is not in state CONNECTING or
\* CONNECTED and has no WebSocket client that is connecting or open.
C39_InactiveIsDown ==
  hostPc.op = "idle"
  => \A i \in Rx :
        ~receivers[i].active
        => /\ receivers[i].state \notin {"CONNECTING", "CONNECTED"}
           /\ IF receivers[i].wsClient = NULL THEN TRUE
              ELSE socks[receivers[i].wsClient].st \notin {"connecting", "open"}

\* ---------------------------------------------------------------------------
\* StartRx called again while the consumer thread of an earlier StartRx is
\* alive: Alloc and the initialisation under the lock are two steps of the
\* host thread, and the consumer runs between them.
\* ---------------------------------------------------------------------------

\* memcpy(&gSet, ...), Alloc() and gStopFlag = false: the buffers are
\* reallocated and every gDataSamples[i] is set to 0, outside the lock
StartRxAlloc(n) ==
  /\ hostPc.op = "idle"
  /\ consumerAlive
  /\ gSetRecvCount' = n
  /\ gData1' = [i \in Rx |-> ZeroBlock]
  /\ gData2' = [i \in Rx |-> ZeroBlock]
  /\ gDataTick' = [i \in Rx |-> [b \in 1..2 |->
                     [p \in 0..(BlockLen - 1) |-> -1]]]
  /\ appended' = [i \in Rx |-> <<>>]
  /\ completed' = [i \in Rx |-> <<>>]
  /\ delivered' = [i \in Rx |-> <<>>]
  /\ gDataSamples' = [i \in Rx |-> 0]
  /\ gStopFlag' = FALSE
  /\ hostPc' = [op |-> "StartRxInit", n |-> n]
  /\ UNCHANGED <<auxVars, thrVars, startReturn, gRxMask, gRxFilled,
                 gActiveReceivers, gInPtr, gOutPtr, gBucket,
                 gDataCriticalSection, totalCallbacks, sdrVars, ringBuffer,
                 samplesReceived, sockVars, consVars, clock,
                 callbacksSinceT0, tickClock, prevTickClock>>

\* the initialisation of the masks, counters, buckets and pointers under
\* gDataCriticalSection, then the loop over StartReceiver
StartRxInit ==
  /\ hostPc.op = "StartRxInit"
  /\ gDataCriticalSection = "free"
  /\ LET n == hostPc.n IN
     /\ gRxMask' = 0..(n - 1)
     /\ gRxFilled' = {}
     /\ gActiveReceivers' = n
     /\ gDataSamples' = [i \in Rx |-> IF i < n THEN 0 ELSE gDataSamples[i]]
     /\ gBucket' = [i \in Rx |-> IF i < n THEN 0 ELSE gBucket[i]]
     /\ gInPtr' = [i \in Rx |->
                     IF i < n THEN [buf |-> 1, off |-> 0] ELSE gInPtr[i]]
     /\ gOutPtr' = [i \in Rx |-> IF i < n THEN 1 ELSE gOutPtr[i]]
  /\ sampleRate' = SampleRate
  /\ hostPc' = [op |-> "StartReceiver", i |-> 0, caller |-> "StartRx",
                uuid |-> NULL, mode |-> RateMode]
  /\ UNCHANGED <<auxVars, thrVars, startReturn, gSetRecvCount, gStopFlag,
                 gData1, gData2, gDataCriticalSection, totalCallbacks,
                 receivers, activeReceivers, ringBuffer, samplesReceived,
                 sockVars, consVars, clock, histVars>>

NextRestart ==
  \/ NextAsm
  \/ StartRxAlloc(1)
  \/ StartRxInit

SpecRestart == Init /\ [][NextRestart]_vars

\* C40 (as stated): for every receiver the counter of the in-buffer stays
\* within 0..B, the in-pointer stays within its buffer of B samples, it is
\* as far into the buffer as the counter says, and the consumer never
\* stores a sample at a position at or after the end of the buffer.
C40_WriteInsideBlock ==
  \A i \in Rx :
     /\ gDataSamples[i] >= 0 /\ gDataSamples[i] <= BlockLen
     /\ gInPtr[i].off >= 0 /\ gInPtr[i].off <= BlockLen
     /\ (consumerAlive /\ asmPc = "rx" /\ receiverID = i /\ receivers[i].active)
        => gInPtr[i].off < BlockLen

=============================================================================
